---------------------------- MODULE Spec2Model ----------------------------
(***************************************************************************)
(* Model of src/Main.py: the Streamlit interactive resume with its         *)
(* retrieval-augmented question answering pipeline.                        *)
(*                                                                         *)
(* Texts are TLA+ strings, so that f-strings are concatenations and        *)
(* len() is Len.  A long text whose wording does not matter (a README, a   *)
(* page of the PDF) is Text(n): n filler characters.  A Python value that  *)
(* may be None is None (the empty tuple) or Some(v) (the 1-tuple of v).    *)
(* A falsy string API field (None or "") is the empty string.              *)
(***************************************************************************)
EXTENDS Integers, Sequences, FiniteSets, TLC

None == <<>>
Some(v) == <<v>>
Val(o) == o[1]

\* Python's `x or d` on a string field.
Or(x, d) == IF x = "" THEN d ELSE x

\* dict.get(k, d)
Get(d, k, dflt) == IF k \in DOMAIN d THEN d[k] ELSE dflt

RECURSIVE Rep(_, _)
Rep(s, n) ==
    IF n = 0 THEN ""
    ELSE LET h == Rep(s, n \div 2)
         IN  h \o h \o (IF n % 2 = 1 THEN s ELSE "")

\* A text of n characters.
Text(n) == Rep("x", n)

RECURSIVE JoinStr(_, _)
\* sep.join(seq)
JoinStr(seq, sep) ==
    IF Len(seq) = 0 THEN ""
    ELSE IF Len(seq) = 1 THEN seq[1]
    ELSE seq[1] \o sep \o JoinStr(Tail(seq), sep)

RECURSIVE Flatten(_)
Flatten(seqs) ==
    IF Len(seqs) = 0 THEN <<>> ELSE Head(seqs) \o Flatten(Tail(seqs))

(***************************************************************************)
(* Program constants.                                                      *)
(***************************************************************************)
\* RecursiveCharacterTextSplitter(chunk_size=1500, chunk_overlap=200)
LargeChunkSize == 1500
LargeChunkOverlap == 200
\* RecursiveCharacterTextSplitter(chunk_size=1000, chunk_overlap=150)
MediumChunkSize == 1000
MediumChunkOverlap == 150
\* search_kwargs={'k': 5}
RetrieverK == 5
\* len("\n".join(f"{key}: {value}" for key, value in resume_data.items()))
\* of the resume_data literal.
ResumeDataStrLen == 11592

PdfPath == "Binay_Resume.pdf"
PersistDirectory == "chroma_db_interactive_resume"
ReadmeDefault == "README not found or could not be decoded."
ReadmeNames == <<"README.md", "README.rst", "README">>
ProfileId == "binaysiddharth"

ErrPrefix == "Sorry, I encountered an error trying to answer that: "
NotReadyReply == "Apologies, I couldn't process that as my underlying systems are not ready. Please check the application setup."
Greeting == "Hi there! I'm Binay's AI assistant. Ask me anything about his professional background based on his resume, GitHub, and LinkedIn data."

\* The module-level resume_data dict, as the string create_vectorstore
\* would render it.
resume_data == [kind |-> "dict", rendered |-> Text(ResumeDataStrLen)]

(***************************************************************************)
(* Bounds of the model.                                                    *)
(***************************************************************************)
MaxRuns == 4        \* script runs in all, over every session and process


(***************************************************************************)
(* What a call gives its caller: the value returned or the exception that  *)
(* escapes, and the st.error / st.warning / st.success lines it put on the *)
(* page.                                                                   *)
(***************************************************************************)
Ret(v, msgs) == [raised |-> None, ret |-> v, ui |-> msgs]
Throw(e, msgs) == [raised |-> Some(e), ret |-> None, ui |-> msgs]
Msg(level, text) == <<level, text>>

(***************************************************************************)
(* extract_text_from_pdf.  A PDF file is missing, unreadable, or a         *)
(* sequence of page texts.                                                 *)
(***************************************************************************)
extract_text_from_pdf(pdf) ==
    IF ~pdf.exists
    THEN Ret(None, <<Msg("error", "PDF file not found at path: '" \o PdfPath \o "'.")>>)
    ELSE IF pdf.corrupt
    THEN Ret(None, <<Msg("error", "Error processing PDF '" \o PdfPath \o "'")>>)
    ELSE Ret(Some(JoinStr(pdf.pages, "")), <<>>)

(***************************************************************************)
(* extract_github_info.  The GitHub API answers the user fetch and the     *)
(* repository listing with a status (0: the call failed with an exception  *)
(* that is no GithubException), and each get_contents(name) with 200 and   *)
(* the file, 404, or another status.  A file without decoded_content is    *)
(* one whose content cannot be read (a directory, a file too large).       *)
(***************************************************************************)
RECURSIVE TryReadme(_, _)
RECURSIVE TryReadme_NoBreak(_, _)
\* A faulty variant: the loop goes on after a name was found, and the last
\* name found wins.
TryReadme_NoBreak(repo, i) ==
    IF i > Len(ReadmeNames) THEN [found |-> FALSE, tried |-> i - 1, raised |-> FALSE]
    ELSE LET r == repo.contents[ReadmeNames[i]]
             rest == TryReadme_NoBreak(repo, i + 1)
         IN  IF r.status = 200
             THEN IF rest.found \/ rest.raised THEN rest
                  ELSE [found |-> TRUE, tried |-> rest.tried, raised |-> FALSE,
                        readme_content |-> r]
             ELSE IF r.status = 404
             THEN rest
             ELSE [found |-> FALSE, tried |-> i, raised |-> TRUE]

\* for readme_name in ["README.md", "README.rst", "README"]: ...
TryReadme(repo, i) ==
    IF i > Len(ReadmeNames) THEN [found |-> FALSE, tried |-> i - 1, raised |-> FALSE]
    ELSE LET r == repo.contents[ReadmeNames[i]]
         IN  IF r.status = 200
             THEN [found |-> TRUE, tried |-> i, raised |-> FALSE,
                   readme_content |-> r]
             ELSE IF r.status = 404
             THEN TryReadme(repo, i + 1)
             ELSE [found |-> FALSE, tried |-> i, raised |-> TRUE]

\* if readme_content: repo_data["readme"] = readme_content.decoded_content.decode(...)
\* except Exception as readme_e: ... pass  (the default stays)
FetchReadme(repo) ==
    LET t == TryReadme(repo, 1)
    IN  IF t.found /\ "decoded_content" \in DOMAIN t.readme_content
        THEN t.readme_content.decoded_content
        ELSE ReadmeDefault

RepoData(repo) ==
    [name |-> repo.name,
     description |-> Or(repo.description, "No description provided."),
     url |-> repo.html_url,
     language |-> Or(repo.language, "N/A"),
     stars |-> repo.stargazers_count,
     forks |-> repo.forks_count,
     last_updated |-> repo.updated_at,
     readme |-> FetchReadme(repo)]

GithubProfile(user) ==
    [username |-> user.login,
     bio |-> Or(user.bio, "N/A"),
     name |-> Or(user.name, "N/A"),
     company |-> Or(user.company, "N/A"),
     location |-> Or(user.location, "N/A"),
     email |-> Or(user.email, "N/A"),
     url |-> user.html_url,
     followers |-> user.followers,
     following |-> user.following,
     public_repos |-> user.public_repos]

\* A faulty variant: one message for every GithubException.
GithubError_OneMessage(status) ==
    IF status = 0
    THEN Ret(None, <<Msg("error", "An unexpected error occurred while accessing GitHub")>>)
    ELSE Ret(None, <<Msg("error", "GitHub Error.")>>)

\* except GithubException as ge: ... except Exception as e: ...
GithubError(status) ==
    IF status = 401
    THEN Ret(None, <<Msg("error", "GitHub Error: Authentication failed.")>>)
    ELSE IF status = 403
    THEN Ret(None, <<Msg("error", "GitHub Error: Forbidden. Rate limit exceeded or insufficient permissions.")>>)
    ELSE IF status = 0
    THEN Ret(None, <<Msg("error", "An unexpected error occurred while accessing GitHub")>>)
    ELSE Ret(None, <<Msg("error", "GitHub Error. Status: " \o ToString(status))>>)

extract_github_info(github_token, api) ==
    IF github_token = ""
    THEN Ret(None, <<Msg("warning", "GitHub token is missing. Cannot fetch GitHub data.")>>)
    ELSE IF api.user_status # 200 THEN GithubError(api.user_status)
    ELSE IF api.repos_status # 200 THEN GithubError(api.repos_status)
    ELSE Ret(Some([profile |-> GithubProfile(api.user),
                   repositories |-> [i \in 1..Len(api.repos) |-> RepoData(api.repos[i])]]),
             <<>>)

(***************************************************************************)
(* extract_linkedin_info.  A dict of the LinkedIn API is a record whose    *)
(* keys may be missing; a sub-section is [type |-> "list", items |-> ...]  *)
(* or a value of another type.                                             *)
(***************************************************************************)
EmptyDict == <<>>
Truthy(d) == DOMAIN d # {}
IsList(v) == v.type = "list"
\* str(d.get(k, "")) of an integer field
IntStr(d, k) == IF Truthy(d) /\ k \in DOMAIN d THEN ToString(d[k]) ELSE ""

\* A faulty variant: an entry without end date ends "N/A", as in education.
ExperienceDates_OpenEndNA(exp) ==
    LET tp == Get(exp, "timePeriod", EmptyDict)
        start_date == Get(tp, "startDate", EmptyDict)
        end_date == Get(tp, "endDate", EmptyDict)
        start_year == IntStr(start_date, "year")
        start_month == IntStr(start_date, "month")
        end_year == IF Truthy(end_date) THEN IntStr(end_date, "year") ELSE "N/A"
        end_month == IntStr(end_date, "month")
        first == IF start_month # "" /\ start_month # "0"
                 THEN start_month \o "/" \o start_year
                 ELSE start_year
    IN  IF end_month # "" /\ end_month # "0" /\ end_year # "N/A"
        THEN first \o " - " \o end_month \o "/" \o end_year
        ELSE first \o " - " \o end_year

\* start_date = exp.get("timePeriod", {}).get("startDate", {}) ... dates_str
ExperienceDates(exp) ==
    LET tp == Get(exp, "timePeriod", EmptyDict)
        start_date == Get(tp, "startDate", EmptyDict)
        end_date == Get(tp, "endDate", EmptyDict)
        start_year == IntStr(start_date, "year")
        start_month == IntStr(start_date, "month")
        end_year == IF Truthy(end_date) THEN IntStr(end_date, "year") ELSE "Present"
        end_month == IntStr(end_date, "month")
        first == IF start_month # "" /\ start_month # "0"
                 THEN start_month \o "/" \o start_year
                 ELSE start_year
    IN  IF end_month # "" /\ end_month # "0" /\ end_year # "Present"
        THEN first \o " - " \o end_month \o "/" \o end_year
        ELSE first \o " - " \o end_year

EducationDates(edu) ==
    LET tp == Get(edu, "timePeriod", EmptyDict)
        start_date == Get(tp, "startDate", EmptyDict)
        end_date == Get(tp, "endDate", EmptyDict)
        start_year == IntStr(start_date, "year")
        end_year == IF Truthy(end_date) THEN IntStr(end_date, "year") ELSE "N/A"
    IN  IF (start_year # "" /\ start_year # "0") \/ (end_year # "" /\ end_year # "0")
        THEN start_year \o " - " \o end_year
        ELSE "N/A"

ExperienceEntry(exp) ==
    [title |-> Get(exp, "title", "N/A"),
     company |-> Get(exp, "companyName", "N/A"),
     location |-> Get(exp, "locationName", "N/A"),
     dates |-> ExperienceDates(exp),
     description |-> Get(exp, "description", "N/A")]

EducationEntry(edu) ==
    [schoolName |-> Get(edu, "schoolName", "N/A"),
     degreeName |-> Get(edu, "degreeName", "N/A"),
     fieldOfStudy |-> Get(edu, "fieldOfStudy", "N/A"),
     dates |-> EducationDates(edu),
     description |-> Get(edu, "description", "N/A")]

HasList(profile, key) == key \in DOMAIN profile /\ IsList(profile[key])

\* if 'experience' in profile and isinstance(profile['experience'], list): ...
ExperienceSection(profile) ==
    IF HasList(profile, "experience")
    THEN [i \in 1..Len(profile["experience"].items) |->
            ExperienceEntry(profile["experience"].items[i])]
    ELSE <<>>

\* if 'education' in profile and isinstance(profile['education'], list): ...
EducationSection(profile) ==
    IF HasList(profile, "education")
    THEN [i \in 1..Len(profile["education"].items) |->
            EducationEntry(profile["education"].items[i])]
    ELSE <<>>

SectionWarning(profile, key) ==
    IF HasList(profile, key)
    THEN <<>>
    ELSE <<Msg("warning", "No LinkedIn " \o key \o " data found or data is in an unexpected format.")>>

SkillName(skill) == Get(skill, "name", "Unknown Skill")

\* [skill.get("name", "Unknown Skill") for skill in profile.get("skills", [])]
\* raises on a value that cannot be iterated (None) and on one whose elements
\* have no get (the characters of a string); an empty string gives [].
SkillsRaise(profile) ==
    /\ "skills" \in DOMAIN profile
    /\ ~IsList(profile["skills"])
    /\ ~(profile["skills"].type = "str" /\ profile["skills"].text = "")

extract_linkedin_info(username, password, api) ==
    IF username = "" \/ password = ""
    THEN Ret(None, <<Msg("warning", "LinkedIn username or password missing. Cannot fetch LinkedIn data.")>>)
    ELSE IF ~api.login_ok
    \* Linkedin(username, password) raised before profile_id was assigned:
    \* the handler's f-string reads profile_id and raises in its turn.
    THEN Throw("UnboundLocalError", <<>>)
    ELSE IF api.get_profile_raises
    THEN Ret(None, <<Msg("error", "Error accessing LinkedIn. Check credentials and profile ID ('" \o ProfileId \o "').")>>)
    ELSE LET profile == api.profile IN
         IF ~Truthy(profile)
         THEN Ret(None, <<Msg("error", "LinkedIn profile not found for ID: '" \o ProfileId \o "'.")>>)
         ELSE IF SkillsRaise(profile)
         \* the exception is caught by the function's except Exception
         THEN Ret(None, <<Msg("error", "Error accessing LinkedIn. Check credentials and profile ID ('" \o ProfileId \o "').")>>)
         ELSE Ret(Some(
                [profile |-> [summary |-> Get(profile, "summary", "N/A"),
                              headline |-> Get(profile, "headline", "N/A"),
                              location |-> Get(profile, "locationName", "N/A"),
                              geo_country |-> Get(profile, "geoCountryName", "N/A"),
                              industry |-> Get(profile, "industryName", "N/A")],
                 experience |-> ExperienceSection(profile),
                 education |-> EducationSection(profile),
                 skills |-> IF HasList(profile, "skills")
                            THEN [i \in 1..Len(profile["skills"].items) |->
                                    SkillName(profile["skills"].items[i])]
                            ELSE <<>>]),
                SectionWarning(profile, "experience") \o SectionWarning(profile, "education"))


(***************************************************************************)
(* create_vectorstore.  RecursiveCharacterTextSplitter.split_text on a     *)
(* text without separators falls back to the character cut: windows of     *)
(* chunk_size characters, each starting chunk_size - chunk_overlap after   *)
(* the one before; a text with separators gives windows no longer.         *)
(***************************************************************************)
RECURSIVE split_text(_, _, _)
split_text(text, chunk_size, chunk_overlap) ==
    IF Len(text) = 0 THEN <<>>
    ELSE IF Len(text) <= chunk_size THEN <<text>>
    ELSE <<SubSeq(text, 1, chunk_size)>>
         \o split_text(SubSeq(text, chunk_size - chunk_overlap + 1, Len(text)),
                       chunk_size, chunk_overlap)

Document(content, meta) == [page_content |-> content, metadata |-> meta]

\* A Python value handed to create_vectorstore's first two parameters.
PyStr(s) == [kind |-> "str", s |-> s]

\* if resume_data and isinstance(resume_data, dict): ...
ResumeDataDocs(resume_data_arg) ==
    IF resume_data_arg # None /\ resume_data_arg.kind = "dict" /\ resume_data_arg.rendered # ""
    THEN LET chunks == split_text(resume_data_arg.rendered, MediumChunkSize, MediumChunkOverlap)
         IN  [i \in 1..Len(chunks) |->
                Document(chunks[i], [source |-> "resume", chunk |-> i - 1])]
    ELSE <<>>

\* A faulty variant: the chunk index counts from one.
ResumeTextDocs_FromOne(resume_text_arg) ==
    IF resume_text_arg # None /\ resume_text_arg.kind = "str" /\ resume_text_arg.s # ""
    THEN LET chunks == split_text(resume_text_arg.s, MediumChunkSize, MediumChunkOverlap)
         IN  [i \in 1..Len(chunks) |->
                Document(chunks[i], [source |-> "resume", chunk |-> i])]
    ELSE <<>>

\* if resume_text and isinstance(resume_text, str): ...
ResumeTextDocs(resume_text_arg) ==
    IF resume_text_arg # None /\ resume_text_arg.kind = "str" /\ resume_text_arg.s # ""
    THEN LET chunks == split_text(resume_text_arg.s, MediumChunkSize, MediumChunkOverlap)
         IN  [i \in 1..Len(chunks) |->
                Document(chunks[i], [source |-> "resume", chunk |-> i - 1])]
    ELSE <<>>

\* A faulty variant: the default text is chunked like a README.
ReadmeDocs_DefaultChunked(repo) ==
    IF repo.readme # ""
    THEN LET chunks == split_text(repo.readme, LargeChunkSize, LargeChunkOverlap)
         IN  [i \in 1..Len(chunks) |->
                Document("GitHub README (" \o repo.name \o "): " \o chunks[i],
                         [source |-> "github", type |-> "readme",
                          repo_name |-> repo.name, chunk |-> i - 1, url |-> repo.url])]
    ELSE <<>>

\* if repo["readme"] and repo["readme"] != "README not found or could not be decoded.": ...
ReadmeDocs(repo) ==
    IF repo.readme # "" /\ repo.readme # ReadmeDefault
    THEN LET chunks == split_text(repo.readme, LargeChunkSize, LargeChunkOverlap)
         IN  [i \in 1..Len(chunks) |->
                Document("GitHub README (" \o repo.name \o "): " \o chunks[i],
                         [source |-> "github", type |-> "readme",
                          repo_name |-> repo.name, chunk |-> i - 1, url |-> repo.url])]
    ELSE <<>>

RepoDocs(repo) ==
    <<Document("GitHub Repo: " \o repo.name \o "\nLanguage: " \o repo.language
               \o "\nStars: " \o ToString(repo.stars)
               \o "\nDescription: " \o repo.description
               \o "\nLast Updated: " \o repo.last_updated,
               [source |-> "github", type |-> "repo_summary",
                repo_name |-> repo.name, url |-> repo.url])>>
    \o ReadmeDocs(repo)

GithubDocs(github_data) ==
    IF github_data # None
    THEN LET g == Val(github_data)
         IN  <<Document("GitHub Profile (" \o g.profile.username \o "): Name: " \o g.profile.name
                        \o ", Bio: " \o g.profile.bio \o ", Location: " \o g.profile.location
                        \o ", Company: " \o g.profile.company
                        \o ". Followers: " \o ToString(g.profile.followers)
                        \o ", Public Repos: " \o ToString(g.profile.public_repos) \o ".",
                        [source |-> "github", type |-> "profile",
                         username |-> g.profile.username])>>
             \o Flatten([i \in 1..Len(g.repositories) |-> RepoDocs(g.repositories[i])])
    ELSE <<>>

LinkedinDocs(linkedin_data) ==
    IF linkedin_data # None
    THEN LET l == Val(linkedin_data)
         IN  <<Document("LinkedIn Profile Summary: " \o l.profile.headline \o ". "
                        \o l.profile.summary \o ". Location: " \o l.profile.location
                        \o ", Industry: " \o l.profile.industry \o ".",
                        [source |-> "linkedin", type |-> "profile"])>>
             \o [i \in 1..Len(l.experience) |->
                    Document("LinkedIn Experience " \o ToString(i) \o ": "
                             \o l.experience[i].title \o " at " \o l.experience[i].company
                             \o " (" \o l.experience[i].dates \o ", Location: "
                             \o l.experience[i].location \o ").\nDescription: "
                             \o l.experience[i].description,
                             [source |-> "linkedin", type |-> "experience",
                              company |-> l.experience[i].company,
                              title |-> l.experience[i].title])]
             \o [i \in 1..Len(l.education) |->
                    Document("LinkedIn Education " \o ToString(i) \o ": "
                             \o l.education[i].degreeName \o " in "
                             \o l.education[i].fieldOfStudy \o " at "
                             \o l.education[i].schoolName \o " ("
                             \o l.education[i].dates \o ").\nDescription: "
                             \o l.education[i].description,
                             [source |-> "linkedin", type |-> "education",
                              school |-> l.education[i].schoolName,
                              degree |-> l.education[i].degreeName])]
             \o (IF Len(l.skills) > 0
                 THEN <<Document("LinkedIn Skills: " \o JoinStr(l.skills, ", "),
                                 [source |-> "linkedin", type |-> "skills"])>>
                 ELSE <<>>)
    ELSE <<>>

\* all_documents of create_vectorstore, in the order the code appends them.
AllDocuments(resume_text_arg, resume_data_arg, github_data, linkedin_data) ==
    ResumeDataDocs(resume_data_arg) \o ResumeTextDocs(resume_text_arg)
    \o GithubDocs(github_data) \o LinkedinDocs(linkedin_data)

\* Chroma.from_documents(documents, embedding, persist_directory): the
\* documents are added, under fresh ids, to the collection persisted in the
\* directory; nothing is written when the embedding call fails.
Chroma_from_documents(documents, persisted) == persisted \o documents

Vectorstore == [persist_directory |-> PersistDirectory]

\* The value returned, the page output, the documents generated and the
\* persisted collection afterwards.
\* A faulty variant: the test for an empty all_documents is left out.
create_vectorstore_NoEmptyTest(resume_text_arg, resume_data_arg, github_data, linkedin_data, persisted, embed_ok) ==
    LET all_documents ==
            AllDocuments(resume_text_arg, resume_data_arg, github_data, linkedin_data)
    IN  IF embed_ok
        THEN [ret |-> Some(Vectorstore), documents |-> all_documents,
              persisted |-> Chroma_from_documents(all_documents, persisted),
              ui |-> <<>>]
        ELSE [ret |-> None, documents |-> all_documents, persisted |-> persisted,
              ui |-> <<Msg("error", "Failed to create or update vector store")>>]

create_vectorstore(resume_text_arg, resume_data_arg, github_data, linkedin_data, persisted, embed_ok) ==
    LET all_documents ==
            AllDocuments(resume_text_arg, resume_data_arg, github_data, linkedin_data)
    IN  IF Len(all_documents) = 0
        THEN [ret |-> None, documents |-> all_documents, persisted |-> persisted,
              ui |-> <<Msg("error", "No documents were generated from the sources. Cannot create vector store.")>>]
        ELSE IF embed_ok
        THEN [ret |-> Some(Vectorstore), documents |-> all_documents,
              persisted |-> Chroma_from_documents(all_documents, persisted),
              ui |-> <<>>]
        ELSE [ret |-> None, documents |-> all_documents, persisted |-> persisted,
              ui |-> <<Msg("error", "Failed to create or update vector store")>>]

(***************************************************************************)
(* create_rag_chain                                                        *)
(***************************************************************************)
\* A faulty variant: the retriever is asked for six chunks.
create_rag_chain_SixChunks(vectorstore, llm_ok) ==
    IF vectorstore = None
    THEN Ret(None, <<Msg("error", "Cannot create RAG chain: Vectorstore is not available.")>>)
    ELSE IF llm_ok
    THEN Ret(Some([retriever |-> [vectorstore |-> Val(vectorstore), k |-> RetrieverK + 1],
                   llm |-> "gpt-4-turbo-preview"]), <<>>)
    ELSE Ret(None, <<Msg("error", "Failed to create RAG chain")>>)

create_rag_chain(vectorstore, llm_ok) ==
    IF vectorstore = None
    THEN Ret(None, <<Msg("error", "Cannot create RAG chain: Vectorstore is not available.")>>)
    ELSE IF llm_ok
    THEN Ret(Some([retriever |-> [vectorstore |-> Val(vectorstore), k |-> RetrieverK],
                   llm |-> "gpt-4-turbo-preview"]), <<>>)
    ELSE Ret(None, <<Msg("error", "Failed to create RAG chain")>>)


RECURSIVE Reverse(_)
Reverse(seq) == IF Len(seq) = 0 THEN <<>> ELSE Reverse(Tail(seq)) \o <<Head(seq)>>

\* The orders in which a similarity search may rank the collection.
Rankings == {"stored", "reversed"}

\* {"context": retriever, ...}: the retriever of vectorstore.as_retriever(
\* search_kwargs={'k': 5}) gives the retriever.k best ranked documents of the
\* collection persisted in the vectorstore's directory, all of them when the
\* collection holds fewer.
Retrieve(retriever, collection, ranking) ==
    LET ranked == IF ranking = "reversed" THEN Reverse(collection) ELSE collection
    IN  SubSeq(ranked, 1, IF Len(ranked) < retriever.k THEN Len(ranked) ELSE retriever.k)


(***************************************************************************)
(* State.                                                                  *)
(***************************************************************************)
VARIABLES
    secrets,        \* GITHUB_TOKEN, LINKEDIN_USERNAME, LINKEDIN_PASSWORD
    pdf,            \* the file Binay_Resume.pdf
    github_api,     \* what the GitHub API answers
    linkedin_api,   \* what the LinkedIn API answers
    cache_data,     \* st.cache_data: the memoized extractor results
    cache_resource, \* st.cache_resource: memoized vectorstore and chain
    chroma_db,      \* the collection persisted in chroma_db_interactive_resume
    chat_log,       \* chat_log.csv: None while absent, else Some(rows)
    session_state,  \* st.session_state of the browser session
    rendered,       \* the section the last script run rendered, or "none"
    ui,             \* st.error / st.warning / st.success of the last run
    exc,            \* the exception that ended the last run, or None
    last_event,     \* the event that triggered the last run
    invoked,        \* the rag_chain.invoke call of the last run, or None
    console,        \* the error lines the last run printed to the console
    store_call,     \* a direct call of create_vectorstore: arguments, result
    extract_call,   \* a direct call of an extractor: arguments, result
    experience_view, \* the experience view: the year, the slider, what is shown
    feedback_log,   \* feedback_log.csv: None while absent, else Some(rows)
    inits,          \* how often this session entered the initialisation block
    extracted_in,   \* per extractor: the session whose call ran it, 0 if none
    log_calls,      \* the direct calls of the logging functions, in call order
    threads,        \* script threads running concurrently: position and locals
    lock,           \* holder of the cache's lock on the value computed, or None
    clock,          \* datetime.now(), which advances with every reading
    runs,           \* script runs so far
    sessions,       \* browser sessions so far
    restarts        \* restarts of the server process so far

vars == <<secrets, pdf, github_api, linkedin_api, cache_data, cache_resource,
          chroma_db, chat_log, session_state, rendered, ui, exc, last_event,
          invoked, console, store_call, clock, runs, sessions, restarts,
          feedback_log, inits, extracted_in, log_calls, threads, lock, extract_call,
          experience_view>>

\* What only the specifications of direct and of concurrent calls change.
direct == <<store_call, log_calls, threads, lock, extract_call, experience_view>>

world == <<secrets, pdf, github_api, linkedin_api>>

\* d[k] = v on a dict
Put(d, k, v) == [x \in (DOMAIN d) \cup {k} |-> IF x = k THEN v ELSE d[x]]

EmptyCacheData == [pdf |-> None, github |-> None, linkedin |-> None]
EmptyCacheResource == [vectorstore |-> {}, rag_chain |-> None]
NotExtracted == [pdf |-> 0, github |-> 0, linkedin |-> 0]

(***************************************************************************)
(* The cached wrappers.  Each gives the call's result and the cache        *)
(* afterwards; a call that raises stores nothing.                          *)
(***************************************************************************)
\* A faulty variant: the extractor runs on every call.
cached_extract_text_from_pdf_Uncached(cd, pdf_file) ==
    LET r == extract_text_from_pdf(pdf_file)
    IN  [res |-> r, cache |-> [cd EXCEPT !.pdf = Some(r)], hit |-> FALSE]

cached_extract_text_from_pdf(cd, pdf_file) ==
    IF cd.pdf # None THEN [res |-> Val(cd.pdf), cache |-> cd, hit |-> TRUE]
    ELSE LET r == extract_text_from_pdf(pdf_file)
         IN  [res |-> r, cache |-> [cd EXCEPT !.pdf = Some(r)], hit |-> FALSE]

\* keyed on nothing: the parameter is _github_token
cached_extract_github_info(cd, token, api) ==
    IF cd.github # None THEN [res |-> Val(cd.github), cache |-> cd, hit |-> TRUE]
    ELSE LET r == IF token = ""
                  THEN Ret(None, <<Msg("warning", "GitHub Token not available, skipping GitHub data extraction.")>>)
                  ELSE extract_github_info(token, api)
         IN  [res |-> r, cache |-> [cd EXCEPT !.github = Some(r)], hit |-> FALSE]

\* keyed on nothing: the parameters are _username, _password
cached_extract_linkedin_info(cd, username, password, api) ==
    IF cd.linkedin # None THEN [res |-> Val(cd.linkedin), cache |-> cd, hit |-> TRUE]
    ELSE LET r == IF username = "" \/ password = ""
                  THEN Ret(None, <<Msg("warning", "LinkedIn credentials not available, skipping LinkedIn data extraction.")>>)
                  ELSE extract_linkedin_info(username, password, api)
         IN  [res |-> r, hit |-> FALSE,
              cache |-> IF r.raised = None THEN [cd EXCEPT !.linkedin = Some(r)] ELSE cd]

\* def cached_create_vectorstore(resume_data, resume_text, github_data_json, linkedin_data_json):
\*     return create_vectorstore(resume_data, resume_text, github_data_json, linkedin_data_json)
\* The arguments go by position into
\* def create_vectorstore(resume_text, resume_data, github_data, linkedin_data).
cached_create_vectorstore(cr, resume_data_p, resume_text_p, github_data_json, linkedin_data_json, persisted, embed_ok) ==
    LET key == <<resume_data_p, resume_text_p, github_data_json, linkedin_data_json>>
        hit == {e \in cr.vectorstore : e.key = key}
    IN  IF hit # {}
        THEN LET e == CHOOSE e \in hit : TRUE
             IN  [ret |-> e.val.ret, ui |-> e.val.ui, built |-> FALSE,
                  persisted |-> persisted, cache |-> cr]
        ELSE LET r == create_vectorstore(resume_data_p, resume_text_p, github_data_json,
                                         linkedin_data_json, persisted, embed_ok)
             IN  [ret |-> r.ret, ui |-> r.ui, built |-> TRUE,
                  persisted |-> r.persisted,
                  cache |-> [cr EXCEPT !.vectorstore =
                                @ \cup {[key |-> key, val |-> [ret |-> r.ret, ui |-> r.ui]]}]]

\* keyed on nothing: the parameter is _vectorstore
cached_create_rag_chain(cr, vectorstore, llm_ok) ==
    IF cr.rag_chain # None THEN [res |-> Val(cr.rag_chain), cache |-> cr]
    ELSE LET r == create_rag_chain(vectorstore, llm_ok)
         IN  [res |-> r, cache |-> [cr EXCEPT !.rag_chain = Some(r)]]

(***************************************************************************)
(* The initialisation block of main(): if 'rag_chain' not in               *)
(* st.session_state.  outcome is "continue" (the section is rendered       *)
(* next), "return" (main returned) or "raise" (an exception left main).    *)
(***************************************************************************)
\* From the test on resume_text to the end of the block: p, g and l are what
\* the three cached extractors gave, cd is st.cache_data after them.
BuildAssistant(p, g, l, cd, cr, persisted, embed_ok, llm_ok) ==
    LET resume_text == p.ret
        github_data == g.ret
        linkedin_data == l.ret
        unchanged == [cache_resource |-> cr, chroma_db |-> persisted, rag_chain |-> None]
    IN  IF l.raised # None
        THEN unchanged @@ [outcome |-> "raise", exc |-> l.raised, cache_data |-> cd,
                           ui |-> p.ui \o g.ui]
        ELSE IF resume_text = None \/ Val(resume_text) = ""
        THEN unchanged @@ [outcome |-> "return", exc |-> None, cache_data |-> cd,
                           ui |-> p.ui \o g.ui \o l.ui
                                  \o <<Msg("error", "Critical Error: Failed to load resume text. AI Assistant cannot be initialized.")>>]
        ELSE
        LET warn == (IF github_data = None
                     THEN <<Msg("warning", "Could not load GitHub data. AI assistant's knowledge will be limited.")>>
                     ELSE <<>>)
                    \o (IF linkedin_data = None
                        THEN <<Msg("warning", "Could not load LinkedIn data. AI assistant's knowledge will be limited.")>>
                        ELSE <<>>)
            v == cached_create_vectorstore(cr, resume_data, PyStr(Val(resume_text)),
                                           github_data, linkedin_data, persisted, embed_ok)
            sofar == p.ui \o g.ui \o l.ui \o warn \o v.ui
        IN  IF v.ret = None
            THEN [outcome |-> "return", exc |-> None, cache_data |-> cd,
                  cache_resource |-> v.cache, chroma_db |-> v.persisted, rag_chain |-> None,
                  ui |-> sofar \o <<Msg("error", "Critical Error: Failed to create vector store. AI Assistant cannot be initialized.")>>]
            ELSE LET c == cached_create_rag_chain(v.cache, v.ret, llm_ok)
                 IN  [outcome |-> "continue", exc |-> None, cache_data |-> cd,
                      cache_resource |-> c.cache, chroma_db |-> v.persisted,
                      rag_chain |-> c.res.ret,
                      ui |-> sofar \o c.res.ui
                             \o (IF c.res.ret # None
                                 THEN <<Msg("success", "AI Assistant is ready!")>>
                                 ELSE <<Msg("error", "AI Assistant initialization failed. Please check logs or configuration.")>>)]

InitBlock(cd, cr, persisted, embed_ok, llm_ok) ==
    LET p == cached_extract_text_from_pdf(cd, pdf)
        g == cached_extract_github_info(p.cache, secrets.GITHUB_TOKEN, github_api)
        l == cached_extract_linkedin_info(g.cache, secrets.LINKEDIN_USERNAME,
                                          secrets.LINKEDIN_PASSWORD, linkedin_api)
    IN  BuildAssistant(p.res, g.res, l.res, l.cache, cr, persisted, embed_ok, llm_ok)
        @@ [extracted |-> [pdf |-> ~p.hit, github |-> ~g.hit, linkedin |-> ~l.hit]]


(***************************************************************************)
(* log_chat.  io says where the file system fails, if it does: opening the *)
(* missing file for writing, or appending the row.  Either exception is    *)
(* caught and printed.                                                     *)
(***************************************************************************)
ChatHeader == <<"Timestamp", "User Message", "AI Response">>

LogError == "Error writing to chat log"

\* The file afterwards and what was printed to the console.
log_chat(file, timestamp, user_message, ai_response, io) ==
    IF file = None /\ io = "create_fails"
    THEN [file |-> file, console |-> <<LogError>>]
    ELSE LET f == IF file = None THEN <<ChatHeader>> ELSE Val(file)
         IN  IF io = "append_fails"
             THEN [file |-> Some(f), console |-> <<LogError>>]
             ELSE [file |-> Some(Append(f, <<timestamp, user_message, ai_response>>)),
                   console |-> <<>>]

(***************************************************************************)
(* log_feedback, as log_chat on feedback_log.csv.                          *)
(***************************************************************************)
FeedbackHeader == <<"Timestamp", "Name", "Email", "Rating", "Feedback">>

FeedbackLogError == "Error writing to feedback log"

\* A faulty variant: the header is written on every call.
log_feedback_HeaderEachCall(file, timestamp, name, email, rating, feedback_text, io) ==
    IF file = None /\ io = "create_fails"
    THEN [file |-> file, console |-> <<FeedbackLogError>>]
    ELSE LET f == (IF file = None THEN <<>> ELSE Val(file)) \o <<FeedbackHeader>>
         IN  IF io = "append_fails"
             THEN [file |-> Some(f), console |-> <<FeedbackLogError>>]
             ELSE [file |-> Some(Append(f, <<timestamp, name, email, rating, feedback_text>>)),
                   console |-> <<>>]

log_feedback(file, timestamp, name, email, rating, feedback_text, io) ==
    IF file = None /\ io = "create_fails"
    THEN [file |-> file, console |-> <<FeedbackLogError>>]
    ELSE LET f == IF file = None THEN <<FeedbackHeader>> ELSE Val(file)
         IN  IF io = "append_fails"
             THEN [file |-> Some(f), console |-> <<FeedbackLogError>>]
             ELSE [file |-> Some(Append(f, <<timestamp, name, email, rating, feedback_text>>)),
                   console |-> <<>>]

(***************************************************************************)
(* check_file_existence: the part that creates the CSV files that are      *)
(* missing.  io says whether opening a missing file for writing fails.     *)
(***************************************************************************)
DebugFeedbackHeader == <<"Timestamp", "Feedback">>

check_file_existence(chat_file, feedback_file, io) ==
    [chat_log |-> IF chat_file = None /\ io = "ok" THEN Some(<<ChatHeader>>) ELSE chat_file,
     feedback_log |-> IF feedback_file = None /\ io = "ok"
                      THEN Some(<<DebugFeedbackHeader>>)
                      ELSE feedback_file,
     ui |-> (IF chat_file = None /\ io # "ok"
             THEN <<Msg("error", "Could not create chat_log.csv")>>
             ELSE <<>>)
            \o (IF feedback_file = None /\ io # "ok"
                THEN <<Msg("error", "Could not create feedback_log.csv")>>
                ELSE <<>>)]

(***************************************************************************)
(* render_feedback_section.  event.kind = "feedback" when the form was     *)
(* submitted with the fields of the event.                                 *)
(***************************************************************************)
render_feedback_section(event, file, timestamp, io) ==
    IF event.kind # "feedback"
    THEN [feedback_log |-> file, console |-> <<>>, ui |-> <<>>, logged |-> FALSE]
    ELSE IF event.feedback_text # ""
    THEN LET w == log_feedback(file, timestamp, event.name, event.email, event.rating,
                               event.feedback_text, io)
         IN  [feedback_log |-> w.file, console |-> w.console, logged |-> TRUE,
              ui |-> <<Msg("success", "Thank you for your feedback! It has been recorded.")>>]
    ELSE [feedback_log |-> file, console |-> <<>>, logged |-> FALSE,
          ui |-> <<Msg("warning", "Please enter some feedback before submitting.")>>]

(***************************************************************************)
(* render_ask_binay_section.  event.kind = "ask" when st.chat_input gave a *)
(* prompt; answer is what rag_chain.invoke does when it is called.         *)
(***************************************************************************)
ChatMessage(role, content) == [role |-> role, content |-> content]

\* A faulty variant: the handler drops the chain that failed.
InvokeChain_DropsChain(ss, prompt, answer) ==
    IF answer.kind = "answer"
    THEN [ss |-> ss, full_response |-> answer.text, ui |-> <<>>, calls |-> 1]
    ELSE [ss |-> Put(ss, "rag_chain", None),
          full_response |-> ErrPrefix \o answer.text,
          ui |-> <<Msg("error", ErrPrefix \o answer.text)>>, calls |-> 1]

\* A faulty variant: the handler shows the error and leaves full_response empty.
InvokeChain_NoFallback(ss, prompt, answer) ==
    IF answer.kind = "answer"
    THEN [ss |-> ss, full_response |-> answer.text, ui |-> <<>>, calls |-> 1]
    ELSE [ss |-> ss, full_response |-> "",
          ui |-> <<Msg("error", ErrPrefix \o answer.text)>>, calls |-> 1]

\* A faulty variant: a failed call is made a second time before giving up.
InvokeChain_Retry(ss, prompt, answer) ==
    IF answer.kind = "answer"
    THEN [ss |-> ss, full_response |-> answer.text, ui |-> <<>>, calls |-> 1]
    ELSE [ss |-> ss, full_response |-> ErrPrefix \o answer.text,
          ui |-> <<Msg("error", ErrPrefix \o answer.text)>>, calls |-> 2]

\* try: response = st.session_state.rag_chain.invoke(prompt); full_response = response
\* except Exception as e: error_message = f"Sorry, ...: {e}"; st.error(error_message);
\*                        full_response = error_message
InvokeChain(ss, prompt, answer) ==
    IF answer.kind = "answer"
    THEN [ss |-> ss, full_response |-> answer.text, ui |-> <<>>, calls |-> 1]
    ELSE [ss |-> ss, full_response |-> ErrPrefix \o answer.text,
          ui |-> <<Msg("error", ErrPrefix \o answer.text)>>, calls |-> 1]

\* A faulty variant: the check is left out.
ChainUnavailable_Unchecked(ss) == FALSE

\* A faulty variant: only the key is tested, not its value.
ChainUnavailable_KeyOnly(ss) == "rag_chain" \notin DOMAIN ss

\* if 'rag_chain' not in st.session_state or st.session_state.rag_chain is None:
ChainUnavailable(ss) == "rag_chain" \notin DOMAIN ss \/ ss["rag_chain"] = None

\* A faulty variant: the conversation so far is passed with the question.
ChainInput_WithHistory(ss, prompt) ==
    JoinStr([i \in 1..Len(ss["messages"]) |-> ss["messages"][i].content], "\n")

\* st.session_state.rag_chain.invoke(prompt)
ChainInput(ss, prompt) == prompt

\* A faulty variant: the conversation is started afresh on every render.
MessagesMissing_Always(ss) == TRUE

\* if "messages" not in st.session_state
MessagesMissing(ss) == "messages" \notin DOMAIN ss

\* A faulty variant: the conversation starts empty.
InitialMessages_Empty == <<>>

\* st.session_state["messages"] = [{"role": "assistant", "content": "Hi there! ..."}]
InitialMessages == <<ChatMessage("assistant", Greeting)>>

render_ask_binay_section(ss, event, answer, file, timestamp, io, collection) ==
    LET ss1 == IF MessagesMissing(ss)
               THEN Put(ss, "messages", InitialMessages)
               ELSE ss
    IN  IF event.kind # "ask"
        THEN [ss |-> ss1, ui |-> <<>>, invoked |-> None, chat_log |-> file,
              console |-> <<>>]
        ELSE
        LET ss2 == Put(ss1, "messages",
                       Append(ss1["messages"], ChatMessage("user", event.prompt)))
        IN  IF ChainUnavailable(ss2)
            THEN [ss |-> Put(ss2, "messages",
                             Append(ss2["messages"], ChatMessage("assistant", NotReadyReply))),
                  ui |-> <<Msg("error", "Sorry, the AI assistant is not available at the moment. The RAG chain failed to initialize.")>>,
                  invoked |-> None, chat_log |-> file, console |-> <<>>]
            ELSE LET inv == InvokeChain(ss2, event.prompt, answer)
                     logged == log_chat(file, timestamp, event.prompt, inv.full_response, io)
                     input == ChainInput(ss2, event.prompt)
                 IN  [ss |-> Put(inv.ss, "messages",
                                 Append(inv.ss["messages"],
                                        ChatMessage("assistant", inv.full_response))),
                      ui |-> inv.ui,
                      invoked |-> Some([chain |-> ss2["rag_chain"],
                                        input |-> input,
                                        context |-> IF ss2["rag_chain"] = None
                                                    THEN <<>>
                                                    ELSE Retrieve(Val(ss2["rag_chain"]).retriever,
                                                                  collection, answer.ranking),
                                        outcome |-> answer.kind,
                                        calls |-> inv.calls]),
                      chat_log |-> logged.file, console |-> logged.console]

(***************************************************************************)
(* main(): one run of the script.                                          *)
(***************************************************************************)
Sections == {"Ask Binay", "Overview & Skills", "Experience & Projects", "Feedback", "Download PDF"}

\* A faulty variant: the block is entered on every run.
InitNeeded_Always(ss) == TRUE

\* A faulty variant: the block is entered again while there is no chain.
InitNeeded_WhenNone(ss) == "rag_chain" \notin DOMAIN ss \/ ss["rag_chain"] = None

\* if 'rag_chain' not in st.session_state:
InitNeeded(ss) == "rag_chain" \notin DOMAIN ss

\* The script from the initialisation block on: ss1 is st.session_state after
\* create_sidebar(), ib what the initialisation block gives if it is entered.
main(ss1, ib, event, answer, io) ==
    LET init == InitNeeded(ss1)
        ss2 == IF init THEN Put(ss1, "rag_chain", ib.rag_chain) ELSE ss1
        render == ~init \/ ib.outcome = "continue"
        ask == render /\ ss2["selected_section"] = "Ask Binay"
        r == render_ask_binay_section(ss2, event, answer, chat_log, clock, io,
                                      IF init THEN ib.chroma_db ELSE chroma_db)
        fb == render /\ ss2["selected_section"] = "Feedback"
        f == render_feedback_section(event, feedback_log, clock, io)
    IN  /\ session_state' = IF ask THEN r.ss ELSE ss2
        /\ cache_data' = IF init THEN ib.cache_data ELSE cache_data
        /\ cache_resource' = IF init THEN ib.cache_resource ELSE cache_resource
        /\ chroma_db' = IF init THEN ib.chroma_db ELSE chroma_db
        /\ chat_log' = IF ask THEN r.chat_log ELSE chat_log
        /\ feedback_log' = IF fb THEN f.feedback_log ELSE feedback_log
        /\ console' = IF ask THEN r.console ELSE IF fb THEN f.console ELSE <<>>
        /\ rendered' = IF render THEN ss2["selected_section"] ELSE "none"
        /\ ui' = (IF init THEN ib.ui ELSE <<>>) \o (IF ask THEN r.ui ELSE <<>>)
                 \o (IF fb THEN f.ui ELSE <<>>)
        /\ exc' = IF init THEN ib.exc ELSE None
        /\ invoked' = IF ask THEN r.invoked ELSE None
        /\ last_event' = event
        /\ clock' = IF (ask /\ r.invoked # None) \/ (fb /\ f.logged)
                    THEN clock + 1
                    ELSE clock
        /\ runs' = runs + 1
        /\ inits' = IF init THEN inits + 1 ELSE inits
        /\ extracted_in' = IF init
                           THEN [k \in DOMAIN extracted_in |->
                                    IF ib.extracted[k] THEN sessions ELSE extracted_in[k]]
                           ELSE extracted_in
        /\ UNCHANGED <<world, sessions, restarts, direct>>

Run(event, embed_ok, llm_ok, answer, io) ==
    LET \* the on_click callback of a navigation button runs before the script
        ss0 == IF event.kind = "nav"
               THEN Put(session_state, "selected_section", event.section)
               ELSE session_state
        \* create_sidebar()
        ss1 == IF "selected_section" \notin DOMAIN ss0
               THEN Put(ss0, "selected_section", "Ask Binay")
               ELSE ss0
    IN  main(ss1, InitBlock(cache_data, cache_resource, chroma_db, embed_ok, llm_ok),
             event, answer, io)

NoAnswer == [kind |-> "none", text |-> "", ranking |-> "stored"]

\* The browser opens the page: the first run of a session.
PageLoad ==
    /\ session_state = EmptyDict
    /\ runs < MaxRuns
    /\ \E embed_ok \in BOOLEAN, llm_ok \in BOOLEAN :
          Run([kind |-> "load"], embed_ok, llm_ok, NoAnswer, "ok")

\* A click on a navigation button of the sidebar.
Navigate(section) ==
    /\ session_state # EmptyDict
    /\ runs < MaxRuns
    /\ \E embed_ok \in BOOLEAN, llm_ok \in BOOLEAN :
          Run([kind |-> "nav", section |-> section], embed_ok, llm_ok, NoAnswer, "ok")

Questions == {"Where does Binay currently work?"}
\* What rag_chain.invoke does: how the retriever ranks the collection, and
\* whether the generation backend answers or raises.
Answers ==
    {[kind |-> "answer", ranking |-> rk,
      text |-> "According to the resume, Binay works at Commonwealth Bank of Australia."]
        : rk \in Rankings}
    \cup {[kind |-> "raise", ranking |-> "stored", text |-> "Request timed out."]}
IoOutcomes == {"ok", "create_fails", "append_fails"}

\* A question typed into the chat input that the last run rendered.
AskQuestion(prompt, answer, io) ==
    /\ runs < MaxRuns
    /\ rendered = "Ask Binay"
    /\ Run([kind |-> "ask", prompt |-> prompt], TRUE, TRUE, answer, io)

\* What a visitor fills into the feedback form.
Feedbacks ==
    {[name |-> "", email |-> "", rating |-> 3, feedback_text |-> ""],
     [name |-> "Ada", email |-> "ada@example.org", rating |-> 5, feedback_text |-> "Clear and useful."]}

\* The feedback form of the section the last run rendered is submitted.
SubmitFeedback(form, io) ==
    /\ runs < MaxRuns
    /\ rendered = "Feedback"
    /\ Run([kind |-> "feedback"] @@ form, TRUE, TRUE, NoAnswer, io)

\* Another browser session against the same server process.
NewSession ==
    /\ session_state # EmptyDict
    /\ runs < MaxRuns
    /\ sessions' = sessions + 1
    /\ session_state' = EmptyDict
    /\ rendered' = "none"
    /\ ui' = <<>>
    /\ exc' = None
    /\ invoked' = None
    /\ console' = <<>>
    /\ last_event' = [kind |-> "none"]
    /\ inits' = 0
    /\ UNCHANGED <<world, cache_data, cache_resource, chroma_db, chat_log, clock, runs,
                   restarts, feedback_log, extracted_in, direct>>

\* The server process is restarted: the caches and the sessions are gone,
\* the files stay.
Restart ==
    /\ session_state # EmptyDict
    /\ runs < MaxRuns
    /\ restarts' = restarts + 1
    /\ cache_data' = EmptyCacheData
    /\ cache_resource' = EmptyCacheResource
    /\ session_state' = EmptyDict
    /\ rendered' = "none"
    /\ ui' = <<>>
    /\ exc' = None
    /\ invoked' = None
    /\ console' = <<>>
    /\ last_event' = [kind |-> "none"]
    /\ sessions' = sessions + 1
    /\ inits' = 0
    /\ extracted_in' = NotExtracted
    /\ UNCHANGED <<world, chroma_db, chat_log, clock, runs, feedback_log, direct>>

(***************************************************************************)
(* The environments the model starts in.                                   *)
(***************************************************************************)
ResumeLine == "Senior Manager, Group BI Reporting... Commonwealth Bank of Australia"

PdfFiles ==
    {[exists |-> FALSE, corrupt |-> FALSE, pages |-> <<>>],
     [exists |-> TRUE, corrupt |-> TRUE, pages |-> <<>>],
     [exists |-> TRUE, corrupt |-> FALSE, pages |-> <<"">>],
     [exists |-> TRUE, corrupt |-> FALSE, pages |-> <<ResumeLine, Text(MediumChunkSize)>>]}

NotFound == [status |-> 404]
Forbidden == [status |-> 403]
File(content) == [status |-> 200, decoded_content |-> content]

GithubUser ==
    [login |-> "binzidd", bio |-> "", name |-> "Binay Siddharth", company |-> "",
     location |-> "Sydney", email |-> "", html_url |-> "https://github.com/binzidd",
     followers |-> 12, following |-> 3, public_repos |-> 2]

Repo(name, language, description, contents) ==
    [name |-> name, description |-> description,
     html_url |-> "https://github.com/binzidd/" \o name, language |-> language,
     stargazers_count |-> 3, forks_count |-> 0, updated_at |-> "2024-05-01",
     contents |-> contents]

Contents(md, rst, plain) == [x \in {"README.md", "README.rst", "README"} |->
    IF x = "README.md" THEN md ELSE IF x = "README.rst" THEN rst ELSE plain]

GithubApis ==
    {[user_status |-> 401, repos_status |-> 200, user |-> GithubUser, repos |-> <<>>],
     [user_status |-> 200, repos_status |-> 403, user |-> GithubUser, repos |-> <<>>],
     [user_status |-> 200, repos_status |-> 200, user |-> GithubUser,
      repos |-> <<Repo("resume-app", "Python", "", Contents(NotFound, NotFound, NotFound))>>],
     [user_status |-> 200, repos_status |-> 200, user |-> GithubUser,
      repos |-> <<Repo("resume-app", "Python", "Interactive resume",
                       Contents(File(Text(LargeChunkSize + 1)), NotFound, NotFound)),
                  Repo("notes", "", "", Contents(NotFound, Forbidden, File("notes"))),
                  Repo("dotfiles", "Shell", "", Contents(NotFound, File("Dotfiles."), NotFound))>>]}

List(items) == [type |-> "list", items |-> items]

LinkedinProfiles ==
    {EmptyDict,
     [headline |-> "Senior Manager at Commonwealth Bank of Australia"],
     [headline |-> "Senior Manager at Commonwealth Bank of Australia",
      summary |-> Text(MediumChunkSize + 1),
      locationName |-> "Sydney", industryName |-> "Banking",
      skills |-> List(<<[name |-> "Tableau"], EmptyDict>>),
      experience |-> List(<<[title |-> "Senior Manager", companyName |-> "Commonwealth Bank of Australia",
                             timePeriod |-> [startDate |-> [year |-> 2022, month |-> 3]]],
                            [title |-> "Analyst", companyName |-> "The University of Sydney",
                             timePeriod |-> [startDate |-> [year |-> 2019],
                                             endDate |-> [year |-> 2021, month |-> 6]]]>>),
      education |-> List(<<[schoolName |-> "The University of Sydney", degreeName |-> "Master",
                            fieldOfStudy |-> "IT",
                            timePeriod |-> [startDate |-> [year |-> 2016],
                                            endDate |-> [year |-> 2018]]]>>)]}

LinkedinApis ==
    {[login_ok |-> FALSE, get_profile_raises |-> FALSE, profile |-> EmptyDict],
     [login_ok |-> TRUE, get_profile_raises |-> TRUE, profile |-> EmptyDict]}
    \cup {[login_ok |-> TRUE, get_profile_raises |-> FALSE, profile |-> p] : p \in LinkedinProfiles}

\* Without a token or credentials the API is never called: one API stands
\* for all.
GithubWorlds ==
    {<<"", CHOOSE a \in GithubApis : a.user_status = 401>>}
    \cup {<<"ghp_token", a>> : a \in GithubApis}

LinkedinWorlds ==
    {<<"", "", CHOOSE a \in LinkedinApis : ~a.login_ok>>}
    \cup {<<"binay", "secret", a>> : a \in LinkedinApis}

NoCall == [args |-> <<>>, ret |-> None, calls |-> 0]

\* The experience view before it was rendered.
NoView == [now |-> 0, range |-> <<>>, jobs |-> {}, projects |-> {}]

\* The state of a server process that has served nothing yet.
Fresh ==
    /\ cache_data = EmptyCacheData
    /\ cache_resource = EmptyCacheResource
    /\ chroma_db = <<>>
    /\ chat_log = None
    /\ session_state = EmptyDict
    /\ rendered = "none"
    /\ ui = <<>>
    /\ exc = None
    /\ invoked = None
    /\ last_event = [kind |-> "none"]
    /\ clock = 0
    /\ runs = 0
    /\ sessions = 1
    /\ restarts = 0
    /\ console = <<>>
    /\ feedback_log = None
    /\ inits = 0
    /\ extracted_in = NotExtracted
    /\ log_calls = <<>>
    /\ lock = None
    /\ extract_call = NoCall
    /\ experience_view = NoView

Init ==
    /\ pdf \in PdfFiles
    /\ \E g \in GithubWorlds, l \in LinkedinWorlds :
          /\ secrets = [GITHUB_TOKEN |-> g[1], LINKEDIN_USERNAME |-> l[1],
                        LINKEDIN_PASSWORD |-> l[2]]
          /\ github_api = g[2]
          /\ linkedin_api = l[3]
    /\ store_call = NoCall
    /\ threads = <<>>
    /\ Fresh

Next ==
    \/ PageLoad
    \/ \E section \in Sections : Navigate(section)
    \/ \E prompt \in Questions, answer \in Answers, io \in IoOutcomes :
          AskQuestion(prompt, answer, io)
    \/ \E form \in Feedbacks, io \in IoOutcomes : SubmitFeedback(form, io)
    \/ NewSession
    \/ Restart

Spec == Init /\ [][Next]_vars


(***************************************************************************)
(* create_vectorstore called on its own, with the arguments its signature  *)
(* names: the records come from the extractors, the resume arguments are   *)
(* any of the values the two isinstance tests tell apart.                  *)
(***************************************************************************)
ResumeTextArgs ==
    {None, PyStr(""), PyStr(ResumeLine), PyStr(ResumeLine \o Text(MediumChunkSize)), resume_data}

ResumeDataArgs == {None, resume_data, PyStr(ResumeLine)}

GithubRecords ==
    {extract_github_info(w[1], w[2]).ret : w \in GithubWorlds}

LinkedinRecords ==
    {l.ret : l \in {extract_linkedin_info(w[1], w[2], w[3]) : w \in LinkedinWorlds}}

StoreInit ==
    /\ pdf = CHOOSE f \in PdfFiles : ~f.exists
    /\ secrets = [GITHUB_TOKEN |-> "", LINKEDIN_USERNAME |-> "", LINKEDIN_PASSWORD |-> ""]
    /\ github_api = CHOOSE a \in GithubApis : a.user_status = 401
    /\ linkedin_api = CHOOSE a \in LinkedinApis : ~a.login_ok
    /\ \E rt \in ResumeTextArgs, rd \in ResumeDataArgs,
          g \in GithubRecords, l \in LinkedinRecords :
          store_call = [args |-> <<rt, rd, g, l>>, ret |-> None, calls |-> 0]
    /\ threads = <<>>
    /\ Fresh

\* create_vectorstore(resume_text, resume_data, github_data, linkedin_data)
StoreBuild(embed_ok) ==
    /\ runs < MaxRuns
    /\ LET a == store_call.args
           r == create_vectorstore(a[1], a[2], a[3], a[4], chroma_db, embed_ok)
       IN  /\ chroma_db' = r.persisted
           /\ ui' = r.ui
           /\ store_call' = [store_call EXCEPT !.ret = r.ret, !.calls = @ + 1]
    /\ runs' = runs + 1
    /\ UNCHANGED <<world, cache_data, cache_resource, chat_log, session_state, rendered,
                   exc, last_event, invoked, console, clock, sessions, restarts,
                   feedback_log, inits, extracted_in, log_calls, threads, lock,
                   extract_call, experience_view>>

StoreNext == \E embed_ok \in BOOLEAN : StoreBuild(embed_ok)

SpecStore == StoreInit /\ [][StoreNext]_vars

(***************************************************************************)
(* The extractors called on their own against any answer of the APIs.      *)
(* extract_call keeps the call: the function, its result and how often it  *)
(* ran.                                                                    *)
(***************************************************************************)
Undecodable == [status |-> 200]
Unreachable == [status |-> 0]

ReadmeAnswers(name) == {File("Text of " \o name), NotFound, Forbidden, Undecodable, Unreachable}

ContentsWide ==
    {Contents(md, rst, plain) : md \in ReadmeAnswers("README.md"),
                                rst \in ReadmeAnswers("README.rst"),
                                plain \in ReadmeAnswers("README")}

ApiStatuses == {200, 401, 403, 500, 0}

GithubApisWide ==
    {[user_status |-> us, repos_status |-> 200, user |-> GithubUser, repos |-> <<>>] :
        us \in ApiStatuses}
    \cup {[user_status |-> 200, repos_status |-> rs, user |-> GithubUser, repos |-> <<>>] :
        rs \in ApiStatuses}
    \cup {[user_status |-> 200, repos_status |-> 200, user |-> GithubUser,
           repos |-> <<Repo("resume-app", "Python", "Interactive resume", c),
                       Repo("notes", "", "", Contents(NotFound, Forbidden, File("notes"))),
                       Repo("dotfiles", "Shell", "", Contents(NotFound, NotFound, NotFound))>>] :
        c \in ContentsWide}
    \cup {[user_status |-> 200, repos_status |-> 200, user |-> GithubUser,
           repos |-> <<Repo("notes", "", "", Contents(File("notes"), NotFound, NotFound)),
                       Repo("resume-app", "Python", "Interactive resume", c)>>] :
        c \in ContentsWide}

PyNone == [type |-> "none"]
Str(text) == [type |-> "str", text |-> text]

Headline == [headline |-> "Senior Manager at Commonwealth Bank of Australia"]

\* A sub-section of the fetched profile: missing (<<>> here), a list, or a
\* value of another type.
SectionAnswers(items) == {<<>>, <<List(<<>>)>>, <<List(items)>>, <<PyNone>>, <<Str("")>>, <<Str("n/a")>>}

WithSection(profile, key, answer) ==
    IF answer = <<>> THEN profile ELSE Put(profile, key, answer[1])

TimePeriods ==
    {[startDate |-> s, endDate |-> e] :
        s \in {EmptyDict, [year |-> 2019], [year |-> 2022, month |-> 3]},
        e \in {EmptyDict, [year |-> 2021], [year |-> 2024, month |-> 11]}}
    \cup {[startDate |-> [year |-> 2022, month |-> 3]], [endDate |-> [year |-> 2021]]}

ExperiencesWide ==
    {[title |-> "Analyst", companyName |-> "The University of Sydney"]}
    \cup {[title |-> "Senior Manager", companyName |-> "Commonwealth Bank of Australia",
           timePeriod |-> tp] : tp \in TimePeriods}

LinkedinProfilesWide ==
    {WithSection(WithSection(WithSection(Headline, "experience", x), "education", d),
                 "skills", k) :
        x \in SectionAnswers(<<[title |-> "Analyst", companyName |-> "The University of Sydney",
                                 timePeriod |-> [startDate |-> [year |-> 2019]]]>>),
        d \in SectionAnswers(<<[schoolName |-> "The University of Sydney",
                                 degreeName |-> "Master"]>>),
        k \in SectionAnswers(<<[name |-> "Tableau"], EmptyDict>>)}
    \cup {Put(Headline, "experience", List(<<a, b>>)) : a, b \in ExperiencesWide}

LinkedinApisWide ==
    {[login_ok |-> TRUE, get_profile_raises |-> TRUE, profile |-> EmptyDict],
     [login_ok |-> TRUE, get_profile_raises |-> FALSE, profile |-> EmptyDict]}
    \cup {[login_ok |-> TRUE, get_profile_raises |-> FALSE, profile |-> p] :
            p \in LinkedinProfilesWide}

ExtractInit ==
    /\ pdf = CHOOSE f \in PdfFiles : ~f.exists
    /\ secrets = [GITHUB_TOKEN |-> "ghp_token", LINKEDIN_USERNAME |-> "binay",
                  LINKEDIN_PASSWORD |-> "secret"]
    /\ \/ /\ github_api \in GithubApisWide
          /\ linkedin_api = CHOOSE a \in LinkedinApisWide : a.get_profile_raises
       \/ /\ github_api = CHOOSE a \in GithubApisWide : a.user_status = 401
          /\ linkedin_api \in LinkedinApisWide
    /\ store_call = NoCall
    /\ threads = <<>>
    /\ Fresh

ExtractFrame ==
    /\ runs' = runs + 1
    /\ UNCHANGED <<world, cache_data, cache_resource, chroma_db, chat_log, session_state,
                   rendered, exc, last_event, invoked, console, clock, sessions, restarts,
                   feedback_log, inits, extracted_in, store_call, log_calls, threads, lock,
                   experience_view>>

\* extract_github_info(GITHUB_TOKEN)
CallExtractGithub ==
    /\ runs < MaxRuns
    /\ LET r == extract_github_info(secrets.GITHUB_TOKEN, github_api)
       IN  /\ extract_call' = [args |-> <<"extract_github_info">>, ret |-> r.ret,
                               calls |-> extract_call.calls + 1]
           /\ ui' = r.ui
    /\ ExtractFrame

\* extract_linkedin_info(LINKEDIN_USERNAME, LINKEDIN_PASSWORD)
CallExtractLinkedin ==
    /\ runs < MaxRuns
    /\ LET r == extract_linkedin_info(secrets.LINKEDIN_USERNAME, secrets.LINKEDIN_PASSWORD,
                                      linkedin_api)
       IN  /\ r.raised = None
           /\ extract_call' = [args |-> <<"extract_linkedin_info">>, ret |-> r.ret,
                               calls |-> extract_call.calls + 1]
           /\ ui' = r.ui
    /\ ExtractFrame

ExtractNext ==
    \/ CallExtractGithub
    \/ CallExtractLinkedin

SpecExtract == ExtractInit /\ [][ExtractNext]_vars

(***************************************************************************)
(* render_experience_and_projects_section: the filter of the jobs and of   *)
(* their projects by the year range of the slider.  The strings are cut as *)
(* str.replace, str.split, str.strip, str.isdigit and int do.              *)
(***************************************************************************)
\* resume_data["Experience"]: the titles, the dates and the projects, the
\* names without their emoji.
Experience ==
    <<[Title |-> "Senior Manager, Group BI Reporting (Insights and Data)",
      Dates |-> "2022 - Current",
      Projects |-> <<[Name |-> "Reporting hub for Executive Leadership, strategic measures | Data Lake and Reporting"],
                    [Name |-> "Process Efficiency and Data Lineage for Capital Engine"],
                    [Name |-> "ELT Scorecard | Strategic Metrics | Data Lake and Visualization Layer"],
                    [Name |-> "Generative AI & AWS-Powered Business Solutions (Proof of Concept & Experimentation)", Dates |-> "2024-10 - Present"]>>,
      Roles |-> <<>>],
      [Title |-> "Manager, BI Reporting",
      Dates |-> "2020 - 2022",
      Projects |-> <<[Name |-> "Project Spur | Data Transformation and Reporting"]>>,
      Roles |-> <<>>],
      [Title |-> "Senior Analyst, Capital Tech",
      Dates |-> "2019 - 2020",
      Projects |-> <<[Name |-> "Daily Capital Reporting"]>>,
      Roles |-> <<>>],
      [Title |-> "Analyst, Gems Operations",
      Dates |-> "2018 - 2019",
      Projects |-> <<[Name |-> "Loan IQ Data Feed Ingestion and Integration with Data Infrastructure"]>>,
      Roles |-> <<>>],
      [Title |-> "Analyst, University of Sydney Roles",
      Dates |-> "2017 - 2018",
      Projects |-> <<>>,
      Roles |-> <<[SubTitle |-> "Analyst, BI and Analytics (Design and Reporting)",
                   Projects |-> <<[Name |-> "Canvas Reporting and Student Engagement dashboards"],
                                 [Name |-> "HDR Students Predictive model for Course Completion"],
                                 [Name |-> "Student Performance Forecasting and Classification"]>>],
                 [SubTitle |-> "BI Dev, HDR Reporting",
                   Projects |-> <<>>],
                 [SubTitle |-> "Business Analyst, Canvas",
                   Projects |-> <<>>]>>],
      [Title |-> "Tutoring Post Grads",
      Dates |-> "2019 - 2021",
      Projects |-> <<>>,
      Roles |-> <<>>],
      [Title |-> "Data Engineering Intern and Related Roles",
      Dates |-> "2016 - 2018",
      Projects |-> <<>>,
      Roles |-> <<[SubTitle |-> "Data Engineering Intern, Data and Platform Enablement",
                   Projects |-> <<[Name |-> "National Sales Report | Yahoo7"],
                                 [Name |-> "Performance Monitoring Report | Managed Services"]>>],
                 [SubTitle |-> "Developer, Chanel Data",
                   Projects |-> <<>>],
                 [SubTitle |-> "Junior Developer, Managed Services",
                   Projects |-> <<>>]>>],
      [Title |-> "Production Support Analyst and Related Roles",
      Dates |-> "2012 - 2015",
      Projects |-> <<>>,
      Roles |-> <<[SubTitle |-> "Production Support Analyst, Subscription Services",
                   Projects |-> <<[Name |-> "Cush (Community Unified Social Hub)"],
                                 [Name |-> "RSM (Retail Subscription Management)"],
                                 [Name |-> "User Analytics and Journey Optimization"]>>],
                 [SubTitle |-> "Business Analyst, CUSH",
                   Projects |-> <<>>],
                 [SubTitle |-> "Analyst, Web Content",
                   Projects |-> <<>>],
                 [SubTitle |-> "Analyst, Subscription",
                   Projects |-> <<>>]>>]>>

RECURSIVE Replace(_, _, _)
\* s.replace(old, new)
Replace(s, old, new) ==
    IF Len(s) < Len(old) THEN s
    ELSE IF SubSeq(s, 1, Len(old)) = old
    THEN new \o Replace(SubSeq(s, Len(old) + 1, Len(s)), old, new)
    ELSE SubSeq(s, 1, 1) \o Replace(SubSeq(s, 2, Len(s)), old, new)

RECURSIVE Split(_, _)
\* s.split(sep) for a separator of one character
Split(s, sep) ==
    LET at == {i \in 1..Len(s) : SubSeq(s, i, i) = sep}
    IN  IF at = {} THEN <<s>>
        ELSE LET i == CHOOSE i \in at : \A j \in at : i <= j
             IN  <<SubSeq(s, 1, i - 1)>> \o Split(SubSeq(s, i + 1, Len(s)), sep)

RECURSIVE Strip(_)
\* s.strip()
Strip(s) ==
    IF Len(s) > 0 /\ SubSeq(s, 1, 1) = " " THEN Strip(SubSeq(s, 2, Len(s)))
    ELSE IF Len(s) > 0 /\ SubSeq(s, Len(s), Len(s)) = " " THEN Strip(SubSeq(s, 1, Len(s) - 1))
    ELSE s

Digits == <<"0", "1", "2", "3", "4", "5", "6", "7", "8", "9">>

\* s.isdigit()
IsDigit(s) ==
    Len(s) > 0 /\ \A i \in 1..Len(s) : \E d \in 1..Len(Digits) : SubSeq(s, i, i) = Digits[d]

RECURSIVE ParseInt(_)
\* int(s) of a string of digits
ParseInt(s) ==
    IF Len(s) = 0 THEN 0
    ELSE ParseInt(SubSeq(s, 1, Len(s) - 1)) * 10
         + (CHOOSE d \in 1..Len(Digits) : SubSeq(s, Len(s), Len(s)) = Digits[d]) - 1

\* [int(y.strip()) for y in dates_str.split('-') if y.strip().isdigit()]
YearsIn(dates_str) ==
    LET parts == Split(dates_str, "-")
    IN  {ParseInt(Strip(parts[i])) : i \in {j \in 1..Len(parts) : IsDigit(Strip(parts[j]))}}

\* dates_str.replace("Current", str(now)).replace("Present", str(now)) ...
JobYears(job, now) ==
    YearsIn(Replace(Replace(Get(job, "Dates", ""), "Current", ToString(now)),
                    "Present", ToString(now)))

\* proj_dates_str.replace("Present", str(now)).split('-') ...
ProjYears(project, now) ==
    YearsIn(Replace(Get(project, "Dates", ""), "Present", ToString(now)))

Min(years) == CHOOSE y \in years : \A z \in years : y <= z
Max(years) == CHOOSE y \in years : \A z \in years : y >= z

\* job_start_year = min(job_years) if job_years else 0 ...
\* if job_end_year >= start_year and job_start_year <= end_year:
JobShown(job, now, start_year, end_year) ==
    LET job_years == JobYears(job, now)
        job_start_year == IF job_years # {} THEN Min(job_years) ELSE 0
        job_end_year == IF job_years # {} THEN Max(job_years) ELSE 9999
    IN  job_end_year >= start_year /\ job_start_year <= end_year

\* display_project, as both branches of the section compute it
ProjectShown(project, now, start_year, end_year) ==
    LET proj_years_list == ProjYears(project, now)
    IN  proj_years_list = {}
        \/ (Max(proj_years_list) >= start_year /\ Min(proj_years_list) <= end_year)

\* The projects the section goes through for a job: those of its roles when
\* it has roles, its own otherwise.
ProjectsOf(job) ==
    IF job.Roles # <<>>
    THEN Flatten([r \in 1..Len(job.Roles) |-> job.Roles[r].Projects])
    ELSE job.Projects

\* max_year of the slider: the largest year found in the dates of the jobs
\* and of their projects
SliderMax(now) ==
    LET projects == Flatten([j \in 1..Len(Experience) |->
                               Experience[j].Projects
                               \o Flatten([r \in 1..Len(Experience[j].Roles) |->
                                             Experience[j].Roles[r].Projects])])
    IN  Max(UNION {JobYears(Experience[j], now) : j \in 1..Len(Experience)}
            \cup UNION {ProjYears(projects[p], now) : p \in 1..Len(projects)})

SliderMin == 2012

render_experience_and_projects_section(now, start_year, end_year) ==
    LET shown == {j \in 1..Len(Experience) : JobShown(Experience[j], now, start_year, end_year)}
    IN  [now |-> now,
         range |-> <<start_year, end_year>>,
         jobs |-> {Experience[j].Title : j \in shown},
         projects |-> UNION {{ProjectsOf(Experience[j])[p].Name :
                                p \in {q \in 1..Len(ProjectsOf(Experience[j])) :
                                         ProjectShown(ProjectsOf(Experience[j])[q], now,
                                                      start_year, end_year)}} :
                             j \in shown}]

\* datetime.now().year while the section is in use
NowYears == {2025, 2026}

ViewInit ==
    /\ pdf = CHOOSE f \in PdfFiles : ~f.exists
    /\ secrets = [GITHUB_TOKEN |-> "", LINKEDIN_USERNAME |-> "", LINKEDIN_PASSWORD |-> ""]
    /\ github_api = CHOOSE a \in GithubApis : a.user_status = 401
    /\ linkedin_api = CHOOSE a \in LinkedinApis : ~a.login_ok
    /\ store_call = NoCall
    /\ threads = <<>>
    /\ Fresh

\* The section is rendered with the slider at (start_year, end_year).
MoveSlider(now, start_year, end_year) ==
    /\ experience_view.now \in {0, now}
    /\ start_year <= end_year
    /\ end_year <= SliderMax(now)
    /\ experience_view' = render_experience_and_projects_section(now, start_year, end_year)
    /\ UNCHANGED <<world, cache_data, cache_resource, chroma_db, chat_log, session_state,
                   rendered, ui, exc, last_event, invoked, console, clock, runs, sessions,
                   restarts, feedback_log, inits, extracted_in, store_call, log_calls,
                   threads, lock, extract_call>>

ViewNext ==
    \E now \in NowYears :
        \E start_year, end_year \in SliderMin..SliderMax(now) :
            MoveSlider(now, start_year, end_year)

SpecView == ViewInit /\ [][ViewNext]_vars

(***************************************************************************)
(* The logging functions and check_file_existence called on their own, in  *)
(* any order, starting without the two CSV files.  log_calls keeps each    *)
(* call: the function, the row it was to write and whether it printed a    *)
(* write error.                                                            *)
(***************************************************************************)
LogInit ==
    /\ pdf = CHOOSE f \in PdfFiles : ~f.exists
    /\ secrets = [GITHUB_TOKEN |-> "", LINKEDIN_USERNAME |-> "", LINKEDIN_PASSWORD |-> ""]
    /\ github_api = CHOOSE a \in GithubApis : a.user_status = 401
    /\ linkedin_api = CHOOSE a \in LinkedinApis : ~a.login_ok
    /\ store_call = NoCall
    /\ threads = <<>>
    /\ Fresh

LogFrame ==
    /\ runs' = runs + 1
    /\ UNCHANGED <<world, cache_data, cache_resource, chroma_db, session_state, rendered,
                   exc, last_event, invoked, sessions, restarts, inits, extracted_in,
                   store_call, threads, lock, extract_call, experience_view>>

\* log_chat(user_message, ai_response)
CallLogChat(user_message, ai_response, io) ==
    /\ runs < MaxRuns
    /\ LET w == log_chat(chat_log, clock, user_message, ai_response, io)
       IN  /\ chat_log' = w.file
           /\ console' = w.console
           /\ log_calls' = Append(log_calls,
                                  [fn |-> "log_chat", failed |-> w.console # <<>>,
                                   row |-> <<clock, user_message, ai_response>>])
    /\ clock' = clock + 1
    /\ UNCHANGED <<feedback_log, ui>>
    /\ LogFrame

\* log_feedback(name, email, rating, feedback_text)
CallLogFeedback(form, io) ==
    /\ runs < MaxRuns
    /\ LET w == log_feedback(feedback_log, clock, form.name, form.email, form.rating,
                             form.feedback_text, io)
       IN  /\ feedback_log' = w.file
           /\ console' = w.console
           /\ log_calls' = Append(log_calls,
                                  [fn |-> "log_feedback", failed |-> w.console # <<>>,
                                   row |-> <<clock, form.name, form.email, form.rating,
                                             form.feedback_text>>])
    /\ clock' = clock + 1
    /\ UNCHANGED <<chat_log, ui>>
    /\ LogFrame

\* check_file_existence()
CallCheckFileExistence(io) ==
    /\ runs < MaxRuns
    /\ LET w == check_file_existence(chat_log, feedback_log, io)
       IN  /\ chat_log' = w.chat_log
           /\ feedback_log' = w.feedback_log
           /\ ui' = w.ui
    /\ log_calls' = Append(log_calls, [fn |-> "check_file_existence", failed |-> FALSE,
                                       row |-> <<>>])
    /\ UNCHANGED <<console, clock>>
    /\ LogFrame

LogNext ==
    \/ \E q \in Questions, a \in Answers, io \in IoOutcomes : CallLogChat(q, a.text, io)
    \/ \E form \in Feedbacks, io \in IoOutcomes : CallLogFeedback(form, io)
    \/ \E io \in {"ok", "create_fails"} : CallCheckFileExistence(io)

SpecLog == LogInit /\ [][LogNext]_vars

(***************************************************************************)
(* log_chat run by the script threads of two sessions at once.  A thread   *)
(* is between calls ("idle"), has read the clock ("exists"), has found the *)
(* file missing ("create") or is about to append its row ("append").       *)
(***************************************************************************)
Threads == {1, 2}

ChatRaceInit ==
    /\ pdf = CHOOSE f \in PdfFiles : ~f.exists
    /\ secrets = [GITHUB_TOKEN |-> "", LINKEDIN_USERNAME |-> "", LINKEDIN_PASSWORD |-> ""]
    /\ github_api = CHOOSE a \in GithubApis : a.user_status = 401
    /\ linkedin_api = CHOOSE a \in LinkedinApis : ~a.login_ok
    /\ store_call = NoCall
    /\ threads = [t \in Threads |-> [pc |-> "idle", row |-> <<>>]]
    /\ Fresh

ChatRaceFrame ==
    UNCHANGED <<world, cache_data, cache_resource, chroma_db, session_state, rendered,
                exc, last_event, invoked, sessions, restarts, inits, extracted_in,
                store_call, lock, feedback_log, ui, console, extract_call,
                experience_view>>

\* timestamp = datetime.now().strftime(...)
LogChatBegin(t, user_message, ai_response) ==
    /\ runs < MaxRuns
    /\ threads[t].pc = "idle"
    /\ threads' = [threads EXCEPT
                      ![t] = [pc |-> "exists", row |-> <<clock, user_message, ai_response>>]]
    /\ log_calls' = Append(log_calls, [fn |-> "log_chat", failed |-> FALSE, thread |-> t,
                                       row |-> <<clock, user_message, ai_response>>])
    /\ clock' = clock + 1
    /\ runs' = runs + 1
    /\ UNCHANGED chat_log
    /\ ChatRaceFrame

\* if not os.path.exists(log_file):
LogChatExists(t) ==
    /\ threads[t].pc = "exists"
    /\ threads' = [threads EXCEPT ![t].pc = IF chat_log = None THEN "create" ELSE "append"]
    /\ UNCHANGED <<chat_log, log_calls, clock, runs>>
    /\ ChatRaceFrame

\* with open(log_file, "w", ...) as csvfile: writer.writerow([header])
LogChatCreate(t) ==
    /\ threads[t].pc = "create"
    /\ chat_log' = Some(<<ChatHeader>>)
    /\ threads' = [threads EXCEPT ![t].pc = "append"]
    /\ UNCHANGED <<log_calls, clock, runs>>
    /\ ChatRaceFrame

\* with open(log_file, "a", ...) as csvfile: writer.writerow([row])
LogChatAppend(t) ==
    /\ threads[t].pc = "append"
    /\ chat_log' = Some(Append(Val(chat_log), threads[t].row))
    /\ threads' = [threads EXCEPT ![t].pc = "idle"]
    /\ UNCHANGED <<log_calls, clock, runs>>
    /\ ChatRaceFrame

ChatRaceNext ==
    \E t \in Threads :
        \/ \E q \in Questions, a \in Answers : LogChatBegin(t, q, a.text)
        \/ LogChatExists(t)
        \/ LogChatCreate(t)
        \/ LogChatAppend(t)

SpecChatRace == ChatRaceInit /\ [][ChatRaceNext]_vars

(***************************************************************************)
(* cached_create_vectorstore run by the script threads of two sessions at  *)
(* once.  st.cache_resource looks the key up; on a miss the thread takes   *)
(* the lock of the value, looks again, and only then calls the function    *)
(* and stores what it returns.  A thread has not called yet ("lookup"),    *)
(* waits for the lock ("acquire"), holds it ("recheck"), is inside         *)
(* Chroma.from_documents ("write"), is about to store the result ("store") *)
(* or has its vectorstore ("ready").  store_call holds the arguments, the  *)
(* same for every session of a process, and counts the builds.             *)
(***************************************************************************)
\* A faulty variant: the value is computed without taking the lock.
LockFree_Unlocked(l) == TRUE

\* The lock st.cache_resource holds while a value of the key is computed.
LockFree(l) == l = None

BuildKey == store_call.args

BuildCached == \E e \in cache_resource.vectorstore : e.key = BuildKey

BuildRaceInit ==
    /\ pdf = CHOOSE f \in PdfFiles : ~f.exists
    /\ secrets = [GITHUB_TOKEN |-> "", LINKEDIN_USERNAME |-> "", LINKEDIN_PASSWORD |-> ""]
    /\ github_api = CHOOSE a \in GithubApis : a.user_status = 401
    /\ linkedin_api = CHOOSE a \in LinkedinApis : ~a.login_ok
    /\ \E rt \in ResumeTextArgs \ {None, PyStr("")}, g \in GithubRecords, l \in LinkedinRecords :
          store_call = [args |-> <<resume_data, rt, g, l>>, ret |-> None, calls |-> 0]
    /\ threads = [t \in Threads |-> [pc |-> "lookup", row |-> <<>>]]
    /\ Fresh

BuildRaceFrame ==
    UNCHANGED <<world, cache_data, session_state, rendered, exc, last_event, invoked,
                sessions, restarts, inits, extracted_in, log_calls, feedback_log,
                chat_log, console, clock, runs, extract_call, experience_view>>

\* cache.read_result(value_key) before the lock is taken
BuildLookup(t) ==
    /\ threads[t].pc = "lookup"
    /\ threads' = [threads EXCEPT ![t].pc = IF BuildCached THEN "ready" ELSE "acquire"]
    /\ UNCHANGED <<cache_resource, chroma_db, store_call, lock, ui>>
    /\ BuildRaceFrame

\* with cache.compute_value_lock(value_key):
BuildAcquire(t) ==
    /\ threads[t].pc = "acquire"
    /\ LockFree(lock)
    /\ lock' = Some(t)
    /\ threads' = [threads EXCEPT ![t].pc = "recheck"]
    /\ UNCHANGED <<cache_resource, chroma_db, store_call, ui>>
    /\ BuildRaceFrame

\* cache.read_result(value_key) under the lock; on a miss the function is
\* called and create_vectorstore starts to write
BuildRecheck(t) ==
    /\ threads[t].pc = "recheck"
    /\ threads' = [threads EXCEPT ![t].pc = IF BuildCached THEN "ready" ELSE "write"]
    /\ lock' = IF BuildCached THEN None ELSE lock
    /\ UNCHANGED <<cache_resource, chroma_db, store_call, ui>>
    /\ BuildRaceFrame

\* create_vectorstore(resume_data, resume_text, github_data_json, linkedin_data_json)
BuildWrite(t, embed_ok) ==
    /\ threads[t].pc = "write"
    /\ LET a == store_call.args
           r == create_vectorstore(a[1], a[2], a[3], a[4], chroma_db, embed_ok)
       IN  /\ chroma_db' = r.persisted
           /\ ui' = r.ui
           /\ store_call' = [store_call EXCEPT !.ret = r.ret, !.calls = @ + 1]
    /\ threads' = [threads EXCEPT ![t].pc = "store"]
    /\ UNCHANGED <<cache_resource, lock>>
    /\ BuildRaceFrame

\* cache.write_result(value_key, computed_value), and the lock is released
BuildStore(t) ==
    /\ threads[t].pc = "store"
    /\ cache_resource' = [cache_resource EXCEPT !.vectorstore =
                             @ \cup {[key |-> BuildKey,
                                      val |-> [ret |-> store_call.ret, ui |-> ui]]}]
    /\ lock' = None
    /\ threads' = [threads EXCEPT ![t].pc = "ready"]
    /\ UNCHANGED <<chroma_db, store_call, ui>>
    /\ BuildRaceFrame

BuildRaceNext ==
    \E t \in Threads :
        \/ BuildLookup(t)
        \/ BuildAcquire(t)
        \/ BuildRecheck(t)
        \/ \E embed_ok \in BOOLEAN : BuildWrite(t, embed_ok)
        \/ BuildStore(t)

SpecBuildRace == BuildRaceInit /\ [][BuildRaceNext]_vars


(***************************************************************************)
(* Properties.                                                             *)
(***************************************************************************)
\* The initialisation block of main() has run in this session.
InitDone == "rag_chain" \in DOMAIN session_state

\* The index holds a chunk tagged source=src.
Tagged(src) == \E i \in 1..Len(chroma_db) : chroma_db[i].metadata.source = src

\* The extractor of a source gave this process a record (for the resume: a
\* non-empty text).
Extracted(key) ==
    /\ cache_data[key] # None
    /\ Val(cache_data[key]).ret # None
    /\ key = "pdf" => Val(Val(cache_data[key]).ret) # ""

SourceTag(key) == IF key = "pdf" THEN "resume" ELSE key

\* create_vectorstore returned a vectorstore to this process.
VectorstoreBuilt == \E e \in cache_resource.vectorstore : e.val.ret # None

\* Chroma.from_documents raised in this process.
EmbeddingFailed ==
    \E e \in cache_resource.vectorstore :
        e.val.ui = <<Msg("error", "Failed to create or update vector store")>>

\* The construction of the chain raised in this process.
ChainFailed ==
    /\ cache_resource.rag_chain # None
    /\ Val(cache_resource.rag_chain).ui = <<Msg("error", "Failed to create RAG chain")>>

\* C1: with a non-empty resume text, a GitHub record and no LinkedIn
\* credentials, the chunks create_vectorstore hands to the index include one
\* tagged source=resume and one tagged source=github, and none tagged
\* source=linkedin.
C1_ResumeAndGithubIndexed ==
    (/\ InitDone
     /\ Extracted("pdf")
     /\ Extracted("github")
     /\ secrets.LINKEDIN_USERNAME = "" /\ secrets.LINKEDIN_PASSWORD = ""
     /\ VectorstoreBuilt)
    => (Tagged("resume") /\ Tagged("github") /\ ~Tagged("linkedin"))

\* C2: per-source failures are isolated: when initialisation has run, at
\* least one source gave data and neither the embedding nor the generation
\* backend failed, the chain is available and the index holds chunks of
\* every source that gave data.
C2_SourceFailuresIsolated ==
    (/\ InitDone
     /\ \E key \in {"pdf", "github", "linkedin"} : Extracted(key)
     /\ ~EmbeddingFailed /\ ~ChainFailed)
    => (/\ session_state["rag_chain"] # None
        /\ \A key \in {"pdf", "github", "linkedin"} :
              Extracted(key) => Tagged(SourceTag(key)))

\* C3: no extractor lets an exception escape, whichever of its external
\* calls fails (the LinkedIn login included): no script run is ended by an
\* exception raised in extract_text_from_pdf, extract_github_info or
\* extract_linkedin_info.
C3_ExtractorsNeverRaise == exc = None


\* What the extractors give on the environment: no data from any source.
ResumeUnavailable ==
    LET r == extract_text_from_pdf(pdf) IN r.ret = None \/ Val(r.ret) = ""

GithubUnavailable ==
    cached_extract_github_info(EmptyCacheData, secrets.GITHUB_TOKEN, github_api).res.ret = None

LinkedinUnavailable ==
    cached_extract_linkedin_info(EmptyCacheData, secrets.LINKEDIN_USERNAME,
                                 secrets.LINKEDIN_PASSWORD, linkedin_api).res.ret = None

AllUnavailable == ResumeUnavailable /\ GithubUnavailable /\ LinkedinUnavailable

ShowsError == \E i \in 1..Len(ui) : ui[i][1] = "error"

\* C4: when all three sources are unavailable, initialisation leaves the
\* session without a chain, and in every later rerun no submitted question
\* is passed to the RAG chain.
C4_NoAskWithoutSources ==
    (AllUnavailable /\ InitDone)
    => (session_state["rag_chain"] = None /\ invoked = None)

\* C4 witness: all sources unavailable, and a question was submitted in a
\* later rerun and turned away.
C4_Witness ==
    /\ AllUnavailable
    /\ last_event.kind = "ask"
    /\ invoked = None
    /\ session_state["messages"][Len(session_state["messages"])].content = NotReadyReply

\* C5: the chain is invoked for a question only if the index was built from
\* at least one chunk: a vectorstore is returned only for a non-empty chunk
\* list, create_rag_chain gives None for no vectorstore, and a failed
\* initialisation and a question turned away are shown as errors.
C5_InvokeOnlyOnBuiltIndex ==
    /\ invoked # None =>
          (/\ Len(chroma_db) >= 1
           /\ VectorstoreBuilt
           /\ session_state["rag_chain"] # None
           /\ Val(invoked).chain = session_state["rag_chain"]
           /\ Val(Val(invoked).chain).retriever.vectorstore = Vectorstore)
    /\ \A e \in cache_resource.vectorstore :
          e.val.ret # None =>
              Len(AllDocuments(e.key[1], e.key[2], e.key[3], e.key[4])) >= 1
    /\ \A llm_ok \in BOOLEAN : create_rag_chain(None, llm_ok).ret = None
    /\ (last_event.kind = "load" /\ session_state["rag_chain"] = None)
          => (exc # None \/ ShowsError)
    /\ (last_event.kind = "ask" /\ invoked = None) => ShowsError

\* C5 witness: a question was answered by the chain over a non-empty index.
C5_Witness ==
    /\ invoked # None
    /\ Val(invoked).outcome = "answer"
    /\ Len(chroma_db) >= 1


Messages == session_state["messages"]
LastMessage == Messages[Len(Messages)]
StartsWith(text, prefix) ==
    Len(text) >= Len(prefix) /\ SubSeq(text, 1, Len(prefix)) = prefix
NormalAnswers == {a.text : a \in {b \in Answers : b.kind = "answer"}}

\* The chain was invoked in the last run and raised.
InvokeRaised == invoked # None /\ Val(invoked).outcome = "raise"

\* The reply to the question is the fallback, and it is in the conversation
\* after the question.
FallbackReplied ==
    /\ exc = None
    /\ Len(Messages) >= 3
    /\ LastMessage.role = "assistant"
    /\ StartsWith(LastMessage.content, "Sorry, I encountered an error")
    /\ LastMessage.content \notin NormalAnswers
    /\ Messages[Len(Messages) - 1] = ChatMessage("user", last_event.prompt)

\* The last row of chat_log.csv holds the question and the reply.
ExchangeLogged ==
    /\ chat_log # None
    /\ Len(Val(chat_log)) >= 2
    /\ LET row == Val(chat_log)[Len(Val(chat_log))]
       IN  row[2] = last_event.prompt /\ row[3] = LastMessage.content

\* C6 as claimed: when the chain invocation raises, the reply is the
\* fallback text, appended to the conversation, and written to the chat log
\* together with the question.
C6_FallbackAlwaysLogged ==
    InvokeRaised => (FallbackReplied /\ ExchangeLogged)

\* C6 as amended: when the chain invocation raises, handling the question
\* does not raise, the reply is the fallback text beginning "Sorry, I
\* encountered an error", it is appended to the conversation, and log_chat
\* writes it to the chat log with the question unless creating or appending
\* to chat_log.csv fails, which log_chat catches and prints.
C6_FallbackLoggedUnlessWriteFails ==
    InvokeRaised =>
        (/\ FallbackReplied
         /\ console = <<>> => ExchangeLogged
         /\ console # <<>> => console = <<LogError>>)

\* C6 witness: the chain raised and the fallback is in the conversation and
\* in the last row of the chat log.
C6_Witness ==
    /\ InvokeRaised
    /\ FallbackReplied
    /\ console = <<>>
    /\ ExchangeLogged

\* C7: a question whose chain invocation failed leaves the session's
\* rag_chain as it was, and the next question submitted is passed to that
\* same chain.
C7_FailureRecoverable ==
    [][/\ (invoked' # None /\ Val(invoked').outcome = "raise")
            => (/\ InitDone /\ "rag_chain" \in DOMAIN session_state'
                /\ session_state'["rag_chain"] = session_state["rag_chain"]
                /\ session_state'["rag_chain"] # None)
       /\ (InvokeRaised /\ last_event'.kind = "ask")
            => (/\ invoked' # None
                /\ Val(invoked').chain = Val(invoked).chain
                /\ Val(invoked').input = last_event'.prompt)]_vars

\* C7 witness: a question failed, and the next question got a normal answer
\* from the chain.
C7_Witness ==
    /\ invoked # None
    /\ Val(invoked).outcome = "answer"
    /\ Len(Messages) >= 5
    /\ StartsWith(Messages[Len(Messages) - 2].content, "Sorry, I encountered an error")
    /\ LastMessage.content \in NormalAnswers


\* The window size of a chunk's profile.
Window(doc) ==
    IF "type" \in DOMAIN doc.metadata /\ doc.metadata.type = "readme"
    THEN LargeChunkSize
    ELSE MediumChunkSize

\* C8: every chunk create_vectorstore places in the index is no longer than
\* the window of its profile: 1500 for README chunks, 1000 for all others.
C8_ChunkWithinWindow ==
    \A i \in 1..Len(chroma_db) :
        Len(chroma_db[i].page_content) <= Window(chroma_db[i])

HasIndex(doc) == "chunk" \in DOMAIN doc.metadata

\* What the metadata tells of a chunk's origin: the source tag and, for a
\* README, the repository.
Origin(doc) ==
    <<doc.metadata.source,
      IF "repo_name" \in DOMAIN doc.metadata THEN doc.metadata.repo_name ELSE "">>

\* create_vectorstore was called once, and chroma_db holds its chunks.
BuiltOnce == store_call.calls = 1 /\ store_call.ret # None

C10_RebuildKeepsCount ==
    \A e \in cache_resource.vectorstore :
        e.val.ret # None =>
            Len(chroma_db) = Len(AllDocuments(e.key[1], e.key[2], e.key[3], e.key[4]))


\* The documents the retriever gave the chain in the last invocation.
Context == Val(invoked).context

\* C11: for every question passed to the chain, the retriever built by
\* create_rag_chain returns at most 5 chunks, and each of them is a chunk of
\* the built index.
C11_RetrieverBounded ==
    invoked # None =>
        /\ Len(Context) <= 5
        /\ \A i \in 1..Len(Context) :
              \E j \in 1..Len(chroma_db) : Context[i] = chroma_db[j]

\* C11 witness: the index holds more than 5 chunks and the retriever gave 5,
\* the last ones of the collection first.
C11_Witness ==
    /\ invoked # None
    /\ Len(chroma_db) > 5
    /\ Len(Context) = 5
    /\ Context[1] = chroma_db[Len(chroma_db)]


RECURSIVE RowsOf(_, _, _)
\* The rows the calls of fn were to write, in call order; with written_only,
\* of the calls that printed no write error.
RowsOf(calls, fn, written_only) ==
    IF Len(calls) = 0 THEN <<>>
    ELSE LET c == Head(calls)
         IN  (IF c.fn = fn /\ (~written_only \/ ~c.failed) THEN <<c.row>> ELSE <<>>)
             \o RowsOf(Tail(calls), fn, written_only)

Called(fn) == \E i \in 1..Len(log_calls) : log_calls[i].fn = fn

C13_FixedHeaderSchema ==
    /\ chat_log # None =>
          /\ Val(chat_log)[1] = <<"Timestamp", "User Message", "AI Response">>
          /\ \A i \in 1..Len(Val(chat_log)) : Len(Val(chat_log)[i]) = 3
    /\ feedback_log # None =>
          /\ Val(feedback_log)[1] = <<"Timestamp", "Name", "Email", "Rating", "Feedback">>
          /\ \A i \in 1..Len(Val(feedback_log)) : Len(Val(feedback_log)[i]) = 5


\* No call of log_chat is under way.
AllIdle == \A t \in Threads : threads[t].pc = "idle"

\* C14: two sessions calling log_chat on a log file that does not exist yet:
\* under every interleaving of their existence check, header write and row
\* append, once the calls are over the file has exactly one header row and
\* one data row per call, and the row of every call is in it.
C14_ConcurrentAppendLosesNothing ==
    (AllIdle /\ log_calls # <<>>) =>
        /\ chat_log # None
        /\ Val(chat_log)[1] = ChatHeader
        /\ Len(Val(chat_log)) = 1 + Len(log_calls)
        /\ \A c \in 1..Len(log_calls) :
              \E i \in 2..Len(Val(chat_log)) : Val(chat_log)[i] = log_calls[c].row


\* The sessions that are inside the write of chunks into the directory.
Writers == {t \in Threads : threads[t].pc \in {"write", "store"}}

SameSession == sessions' = sessions

\* C16: within one session, across any reruns (navigation, questions,
\* feedback), the initialisation block is entered at most once, and a
\* rag_chain that is not None keeps its value for the rest of the session.
C16_InitOncePerSession ==
    [][SameSession =>
          /\ inits' <= 1
          /\ (InitDone /\ session_state["rag_chain"] # None)
                => (/\ "rag_chain" \in DOMAIN session_state'
                    /\ session_state'["rag_chain"] = session_state["rag_chain"])]_vars

\* C16 witness: one session loaded the page, asked a question, went to the
\* feedback section and submitted the form; it initialised once and has
\* its chain.
C16_Witness ==
    /\ sessions = 1
    /\ inits = 1
    /\ last_event.kind = "feedback"
    /\ "messages" \in DOMAIN session_state /\ Len(session_state["messages"]) >= 3
    /\ session_state["rag_chain"] # None


Extractors == {"pdf", "github", "linkedin"}

\* C17 as claimed: the result a session obtained from a cached extractor was
\* produced by an extraction performed in that session.
C17_RecordsScopedToSession ==
    InitDone =>
        \A k \in Extractors : cache_data[k] # None => extracted_in[k] = sessions

\* C17 as amended: source records are scoped to the server process: a result
\* a cached extractor has stored, an unavailable one included, is what every
\* session of the process obtains, without another extraction, until the
\* process restarts.
C17_RecordsScopedToProcess ==
    [][\A k \in Extractors :
          (cache_data[k] # None /\ restarts' = restarts)
              => (cache_data'[k] = cache_data[k] /\ extracted_in'[k] = extracted_in[k])]_vars

\* C17 witness: a second session of the same process has initialised with
\* the resume text the first session extracted.
C17_Witness ==
    /\ sessions = 2
    /\ restarts = 0
    /\ InitDone
    /\ Extracted("pdf")
    /\ extracted_in["pdf"] = 1

\* C18: once the initialisation block has ended without a chain, rag_chain
\* is None in every later rerun of the session and the block is not entered
\* again in it.
C18_FailedInitIsFatal ==
    [][(SameSession /\ InitDone /\ session_state["rag_chain"] = None)
          => (/\ "rag_chain" \in DOMAIN session_state'
              /\ session_state'["rag_chain"] = None
              /\ inits' = inits)]_vars

\* C18 witness: the index build failed in this session's initialisation, and
\* a question submitted in a later rerun found no chain.
C18_Witness ==
    /\ EmbeddingFailed
    /\ inits = 1
    /\ last_event.kind = "ask"
    /\ session_state["rag_chain"] = None


\* C19: the input the chain gets for a question is exactly the text of the
\* question, so a question asked again after the conversation has grown is
\* passed to the chain as the same input.
C19_InputIsQuestionOnly ==
    [][invoked' # None =>
          /\ Val(invoked').input = last_event'.prompt
          /\ (invoked # None /\ last_event.prompt = last_event'.prompt)
                => Val(invoked').input = Val(invoked).input]_vars

\* C19 witness: the same question was passed to the chain twice in a row, the
\* second time with the first exchange in the conversation.
C19_Witness ==
    /\ invoked # None
    /\ Len(session_state["messages"]) >= 5
    /\ session_state["messages"][Len(session_state["messages"]) - 1].content
          = session_state["messages"][Len(session_state["messages"]) - 3].content
    /\ Val(invoked).input = last_event.prompt


\* C20: within a session the conversation is append-only: once it exists it
\* stays, and the sequence held before a step is a prefix of the sequence
\* held after it.
C20_MessagesAppendOnly ==
    [][(SameSession /\ "messages" \in DOMAIN session_state) =>
          /\ "messages" \in DOMAIN session_state'
          /\ Len(session_state'["messages"]) >= Len(Messages)
          /\ SubSeq(session_state'["messages"], 1, Len(Messages)) = Messages]_vars

\* C20 witness: a session whose conversation grew over two questions, the
\* greeting and the first exchange still in place.
C20_Witness ==
    /\ "messages" \in DOMAIN session_state
    /\ Len(Messages) = 5
    /\ Messages[1] = ChatMessage("assistant", Greeting)
    /\ Messages[2].role = "user"
    /\ Messages[3].role = "assistant"
    /\ Messages[4].role = "user"


\* The session holds a chain that can be invoked.
ChainAvailable ==
    "rag_chain" \in DOMAIN session_state /\ session_state["rag_chain"] # None

\* C21: a submitted question makes exactly one rag_chain.invoke call when the
\* chain is available, also when the call fails, and none when it is None.
C21_InvokedOncePerQuestion ==
    last_event.kind = "ask" =>
        /\ ChainAvailable => (invoked # None /\ Val(invoked).calls = 1)
        /\ ~ChainAvailable => invoked = None

\* C21 witness: a question whose one call to the chain raised.
C21_Witness ==
    /\ last_event.kind = "ask"
    /\ ChainAvailable
    /\ invoked # None
    /\ Val(invoked).outcome = "raise"
    /\ Val(invoked).calls = 1

\* C21 witness of the other case: a question put to a session without a chain.
C21_WitnessNoChain ==
    /\ last_event.kind = "ask"
    /\ ~ChainAvailable
    /\ invoked = None


\* extract_github_info was called and the API answered both fetches.
GithubListed ==
    /\ extract_call.calls > 0
    /\ extract_call.args = <<"extract_github_info">>
    /\ github_api.user_status = 200
    /\ github_api.repos_status = 200

\* The names of a repository that get_contents answers with anything but 404.
Answered(repo) ==
    {j \in 1..Len(ReadmeNames) : repo.contents[ReadmeNames[j]].status # 404}

FirstAnswered(repo) == CHOOSE j \in Answered(repo) : \A k \in Answered(repo) : j <= k

\* The readme of a repository: the text of the first name that is not a 404
\* when that is a readable file, else the default.
ExpectedReadme(repo) ==
    IF Answered(repo) = {} THEN ReadmeDefault
    ELSE LET r == repo.contents[ReadmeNames[FirstAnswered(repo)]]
         IN  IF r.status = 200 /\ "decoded_content" \in DOMAIN r
             THEN r.decoded_content
             ELSE ReadmeDefault

\* C22: the README names are tried in the order README.md, README.rst, README
\* up to the first that is found; a repository without any README, or whose
\* README lookup fails, is listed with the default readme, and the result
\* lists every repository in listing order.
C22_ReadmeLookup ==
    GithubListed =>
        /\ extract_call.ret # None
        /\ LET repos == Val(extract_call.ret).repositories
           IN  /\ Len(repos) = Len(github_api.repos)
               /\ \A i \in 1..Len(repos) :
                     /\ repos[i].name = github_api.repos[i].name
                     /\ repos[i].readme = ExpectedReadme(github_api.repos[i])
                     /\ TryReadme(github_api.repos[i], 1).tried =
                           IF Answered(github_api.repos[i]) = {} THEN Len(ReadmeNames)
                           ELSE FirstAnswered(github_api.repos[i])

\* C22 witness: a listing with a repository that has README.rst and README
\* (the first is taken), one whose lookup was refused and one without README.
C22_Witness ==
    /\ GithubListed
    /\ extract_call.ret # None
    /\ Len(Val(extract_call.ret).repositories) = 3
    /\ github_api.repos[1].contents["README.md"].status = 404
    /\ github_api.repos[1].contents["README"].status = 200
    /\ Val(extract_call.ret).repositories[1].readme = "Text of README.rst"
    /\ github_api.repos[2].contents["README.rst"].status = 403
    /\ Val(extract_call.ret).repositories[2].readme = ReadmeDefault
    /\ Answered(github_api.repos[3]) = {}
    /\ Val(extract_call.ret).repositories[3].readme = ReadmeDefault


\* extract_linkedin_info was called and the API gave a profile.
LinkedinFetched ==
    /\ extract_call.calls > 0
    /\ extract_call.args = <<"extract_linkedin_info">>
    /\ linkedin_api.login_ok
    /\ ~linkedin_api.get_profile_raises
    /\ Truthy(linkedin_api.profile)

SubSections == {"experience", "education", "skills"}

\* C23: a sub-section (experience, education, skills) that the profile lacks
\* or holds as something that is no list comes back as an empty list, in a
\* record that is returned all the same.
C23_MalformedSectionIsEmpty ==
    LinkedinFetched =>
        /\ extract_call.ret # None
        /\ \A key \in SubSections :
              ~HasList(linkedin_api.profile, key) => Val(extract_call.ret)[key] = <<>>


\* The startDate and the endDate of an entry of the fetched profile, <<>>
\* when the entry has none.
DateOf(entry, key) ==
    IF "timePeriod" \in DOMAIN entry /\ key \in DOMAIN entry["timePeriod"]
    THEN entry["timePeriod"][key]
    ELSE <<>>

YearOf(date) == IF "year" \in DOMAIN date THEN ToString(date["year"]) ELSE ""

\* "month/year" when the date has a month, the year otherwise.
MonthYear(date) ==
    IF "month" \in DOMAIN date
    THEN ToString(date["month"]) \o "/" \o YearOf(date)
    ELSE YearOf(date)

ExpectedRange(entry) ==
    MonthYear(DateOf(entry, "startDate")) \o " - " \o
    (IF DateOf(entry, "endDate") = <<>> THEN "Present"
     ELSE MonthYear(DateOf(entry, "endDate")))

\* C24: the date range of every experience entry is "<start> - <end>", the
\* start as month/year or year alone, the end "Present" exactly when the
\* entry has no end date and else month/year or year alone.
C24_ExperienceDateRange ==
    (LinkedinFetched /\ extract_call.ret # None /\ HasList(linkedin_api.profile, "experience")) =>
        LET fetched == linkedin_api.profile["experience"].items
            entries == Val(extract_call.ret).experience
        IN  /\ Len(entries) = Len(fetched)
            /\ \A i \in 1..Len(entries) :
                  /\ entries[i].dates = ExpectedRange(fetched[i])
                  /\ (DateOf(fetched[i], "endDate") = <<>>)
                        <=> (entries[i].dates = MonthYear(DateOf(fetched[i], "startDate"))
                                                  \o " - Present")

\* C24 witness: an ongoing role that started in a known month, listed with
\* a past role that has a start year and an end month.
C24_Witness ==
    /\ LinkedinFetched
    /\ extract_call.ret # None
    /\ Len(Val(extract_call.ret).experience) = 2
    /\ Val(extract_call.ret).experience[1].dates = "3/2022 - Present"
    /\ Val(extract_call.ret).experience[2].dates = "2019 - 11/2024"


\* extract_github_info was called and the fetch of the user or of the
\* repository list failed.
GithubFailed ==
    /\ extract_call.calls > 0
    /\ extract_call.args = <<"extract_github_info">>
    /\ (github_api.user_status # 200 \/ github_api.repos_status # 200)

FailedStatus ==
    IF github_api.user_status # 200 THEN github_api.user_status ELSE github_api.repos_status

Cause(status) ==
    IF status = 401 THEN "authentication" ELSE IF status = 403 THEN "forbidden" ELSE "other"

\* What extract_github_info does when the same fetch fails with another status.
FailingWith(status) ==
    extract_github_info(secrets.GITHUB_TOKEN,
                        IF github_api.user_status # 200
                        THEN [github_api EXCEPT !.user_status = status]
                        ELSE [github_api EXCEPT !.repos_status = status])

OtherCauses == {st \in ApiStatuses \ {200} : Cause(st) # Cause(FailedStatus)}

\* C25 as stated: what the caller gets back for an authentication failure,
\* for a forbidden fetch and for any other error differs pairwise.
C25_CausesGiveDistinctResults ==
    GithubFailed => \A st \in OtherCauses : FailingWith(st).ret # extract_call.ret

\* C25: the caller gets None whatever the cause; the cause shows in the
\* error shown to the user, which differs between an authentication
\* failure, a forbidden fetch and any other error.
C25_CausesGiveDistinctMessages ==
    GithubFailed =>
        /\ extract_call.ret = None
        /\ Len(ui) = 1
        /\ ui[1][1] = "error"
        /\ \A st \in OtherCauses : FailingWith(st).ui # ui

\* C25 witness: the listing of the repositories was refused with a 403.
C25_Witness ==
    /\ GithubFailed
    /\ github_api.user_status = 200
    /\ FailedStatus = 403
    /\ extract_call.ret = None
    /\ ui = <<Msg("error", "GitHub Error: Forbidden. Rate limit exceeded or insufficient permissions.")>>


\* The chunks of the index with the given source tag and type.
ChunksOf(src, type) ==
    {i \in 1..Len(chroma_db) :
        /\ chroma_db[i].metadata.source = src
        /\ "type" \in DOMAIN chroma_db[i].metadata
        /\ chroma_db[i].metadata.type = type}

\* How many windows of size characters, each starting size - overlap after
\* the one before, cover a text of n characters.
Windows(n, size, overlap) ==
    IF n = 0 THEN 0
    ELSE IF n <= size THEN 1
    ELSE 1 + ((n - size) + (size - overlap) - 1) \div (size - overlap)

ReadmeFound(repo) == repo.readme # "" /\ repo.readme # ReadmeDefault

GithubChunksAsStated(g) ==
    /\ Cardinality(ChunksOf("github", "profile")) = 1
    /\ Cardinality(ChunksOf("github", "repo_summary")) = Len(g.repositories)
    /\ \A r \in 1..Len(g.repositories) :
          Cardinality({i \in ChunksOf("github", "readme") :
                         chroma_db[i].metadata.repo_name = g.repositories[r].name})
            = IF ReadmeFound(g.repositories[r])
              THEN Windows(Len(g.repositories[r].readme), LargeChunkSize, LargeChunkOverlap)
              ELSE 0

LinkedinChunksAsStated(l) ==
    /\ Cardinality(ChunksOf("linkedin", "profile")) = 1
    /\ Cardinality(ChunksOf("linkedin", "experience")) = Len(l.experience)
    /\ Cardinality(ChunksOf("linkedin", "education")) = Len(l.education)
    /\ Cardinality(ChunksOf("linkedin", "skills")) = IF l.skills # <<>> THEN 1 ELSE 0

\* C26: a GitHub record gives one profile chunk, one repo_summary chunk per
\* repository and one readme chunk per window of each README that was found
\* and is not empty; a LinkedIn record gives one profile chunk, one chunk
\* per experience entry, one per education entry and one skills chunk
\* exactly when it has skills; a record that is missing gives no chunk, and
\* each chunk's source tag names the record its text came from.
C26_ChunksPerRecord ==
    BuiltOnce =>
        /\ IF store_call.args[3] # None
           THEN GithubChunksAsStated(Val(store_call.args[3]))
           ELSE \A i \in 1..Len(chroma_db) : chroma_db[i].metadata.source # "github"
        /\ IF store_call.args[4] # None
           THEN LinkedinChunksAsStated(Val(store_call.args[4]))
           ELSE \A i \in 1..Len(chroma_db) : chroma_db[i].metadata.source # "linkedin"
        /\ \A i \in 1..Len(chroma_db) :
              /\ StartsWith(chroma_db[i].page_content, "GitHub ")
                    <=> chroma_db[i].metadata.source = "github"
              /\ StartsWith(chroma_db[i].page_content, "LinkedIn ")
                    <=> chroma_db[i].metadata.source = "linkedin"

\* C26 witness: an index built from three repositories, one with a README of
\* two windows, one with a short README and one whose README lookup failed,
\* and from a LinkedIn record with
\* two experience entries, one education entry and skills.
C26_Witness ==
    /\ BuiltOnce
    /\ store_call.args[3] # None
    /\ store_call.args[4] # None
    /\ Cardinality(ChunksOf("github", "repo_summary")) = 3
    /\ Cardinality(ChunksOf("github", "readme")) = 3
    /\ Cardinality(ChunksOf("linkedin", "experience")) = 2
    /\ Cardinality(ChunksOf("linkedin", "education")) = 1
    /\ Cardinality(ChunksOf("linkedin", "skills")) = 1


\* log_chat ran in the step: it wrote to chat_log.csv or printed its error.
LogChatRan == chat_log' # chat_log \/ console' = <<LogError>>

\* C27: a question put while the session has no chain adds the question and
\* the apology to the conversation and leaves the chat log alone; log_chat
\* runs for exactly the questions for which the chain was invoked.
C27_NoLogWithoutChain ==
    [][(last_event'.kind = "ask" /\ SameSession)
          => /\ ~ChainAvailable' =>
                  /\ session_state'["messages"] =
                        Messages \o <<ChatMessage("user", last_event'.prompt),
                                      ChatMessage("assistant", NotReadyReply)>>
                  /\ chat_log' = chat_log
                  /\ console' = <<>>
             /\ LogChatRan <=> invoked' # None]_vars

\* C27 witness: the conversation holds an exchange and the chat log none.
C27_Witness ==
    /\ last_event.kind = "ask"
    /\ ~ChainAvailable
    /\ Len(Messages) >= 3
    /\ LastMessage = ChatMessage("assistant", NotReadyReply)
    /\ chat_log = None


\* C28: the conversation starts with the assistant's greeting and then
\* alternates user, assistant, so its length is odd after every run; a
\* submitted question adds exactly two entries, the question and one
\* assistant entry, whether the chain answered, failed or was unavailable.
C28_ConversationAlternates ==
    [][/\ "messages" \in DOMAIN session_state' =>
            LET m == session_state'["messages"]
            IN  /\ Len(m) % 2 = 1
                /\ m[1] = ChatMessage("assistant", Greeting)
                /\ \A i \in 2..Len(m) :
                      m[i].role = IF i % 2 = 0 THEN "user" ELSE "assistant"
       /\ (last_event'.kind = "ask" /\ SameSession) =>
            /\ Len(session_state'["messages"]) = Len(Messages) + 2
            /\ session_state'["messages"][Len(Messages) + 1] =
                  ChatMessage("user", last_event'.prompt)]_vars

\* C28 witness: a conversation of two exchanges after the greeting, the
\* first with a chain that failed, the second answered.
C28_Witness ==
    /\ "messages" \in DOMAIN session_state
    /\ Len(Messages) = 5
    /\ Messages[2].role = "user"
    /\ Messages[3].role = "assistant"
    /\ StartsWith(Messages[3].content, ErrPrefix)
    /\ Messages[4].role = "user"
    /\ Messages[5].content \in NormalAnswers


\* The last run handled a feedback form that had text.
FeedbackSubmitted == last_event.kind = "feedback" /\ last_event.feedback_text # ""

ThankYou == Msg("success", "Thank you for your feedback! It has been recorded.")

InUi(msg) == \E i \in 1..Len(ui) : ui[i] = msg

\* The row of the last feedback form is the last row of feedback_log.csv.
FeedbackRowWritten ==
    /\ feedback_log # None
    /\ Len(Val(feedback_log)) >= 2
    /\ LET row == Val(feedback_log)[Len(Val(feedback_log))]
       IN  /\ row[2] = last_event.name
           /\ row[3] = last_event.email
           /\ row[4] = last_event.rating
           /\ row[5] = last_event.feedback_text

\* C29: a feedback form with text is thanked only when its row was written
\* to feedback_log.csv; when the write failed the user sees an error and
\* no thanks.
C29_ThanksOnlyIfLogged ==
    FeedbackSubmitted =>
        /\ InUi(ThankYou) => FeedbackRowWritten
        /\ console = <<FeedbackLogError>> =>
              (~InUi(ThankYou) /\ \E i \in 1..Len(ui) : ui[i][1] = "error")


\* The projects of the resume data that have a Dates value, each with the
\* job it is listed under.
DatedProjects ==
    {<<j, p>> \in (1..Len(Experience)) \X (1..4) :
        /\ p <= Len(ProjectsOf(Experience[j]))
        /\ "Dates" \in DOMAIN ProjectsOf(Experience[j])[p]}

\* The start year of a date string: its first four characters.
StartYearOf(dates_str) == ParseInt(SubSeq(dates_str, 1, 4))

\* The end year of a date string: the year of the view when it ends with
\* "Present", its last four characters otherwise.
EndYearOf(dates_str, now) ==
    IF Len(dates_str) >= 7 /\ SubSeq(dates_str, Len(dates_str) - 6, Len(dates_str)) = "Present"
    THEN now
    ELSE ParseInt(SubSeq(dates_str, Len(dates_str) - 3, Len(dates_str)))

\* C30: in the experience view a project with a Dates value is displayed
\* exactly when the years from its start year to its end year overlap the
\* range of the slider; "2024-10 - Present" starts in 2024.
C30_ProjectShownIffOverlap ==
    experience_view.range # <<>> =>
        \A jp \in DatedProjects :
            LET project == ProjectsOf(Experience[jp[1]])[jp[2]]
            IN  (project.Name \in experience_view.projects)
                  <=> /\ EndYearOf(project.Dates, experience_view.now) >= experience_view.range[1]
                      /\ StartYearOf(project.Dates) <= experience_view.range[2]

=============================================================================
